---- MODULE Spec2Model ----
(***************************************************************************)
(* A model of the incremental backup engine `inc` (aviddiviner/inc):       *)
(* the manifest (Compare, Update, Remove, HasIdentical, the JSON codec),   *)
(* the bundler, the backup orchestrator (ScanAndBackup, backupLatest,      *)
(* saveManifest) with its concurrent bundle uploads, and the restore       *)
(* planner (RestoreToPath, UnpackReader, RestoreDir).                      *)
(*                                                                         *)
(* Abstractions.  A file's content is a small integer; its SHA-1 is an     *)
(* injective function of the content.  Times are integers counted in       *)
(* half seconds, so that the tar header's whole-second precision loses     *)
(* information.  Paths are the strings of a small fixed universe, with     *)
(* their Root/Name split, their byte order and their prefix relation       *)
(* tabulated.  A manifest is a heap of entry objects addressed by          *)
(* pointers, the Entries slice of pointers and the pathMap, so that the    *)
(* pointer sharing the Go code relies on is explicit.                      *)
(* File creation modes are taken as given: the umask is not modelled.      *)
(***************************************************************************)
EXTENDS Integers, Sequences, FiniteSets, TLC

VARIABLES
    tree,     \* the source file tree: path -> node (or NoNode)
    dest,     \* the restore destination tree: path -> node (or NoNode)
    layer,    \* the storage layer: blobs, manifests, the metadata pointer
    clock,    \* wall clock, in half seconds
    m,        \* the in-memory Manifest of the running operation
    ls,       \* the scan handed to Compare
    changed,  \* the result of Compare
    latest,   \* backupLatest: object key -> files of the bundle
    gs,       \* backupLatest: the upload goroutines, by object key
    sem,      \* backupLatest: tokens in uploadSem
    pc,       \* position of the main goroutine / of the operation
    ret,      \* value returned by the operation ("nil" or an error)
    hist,     \* what the last operation did (observations, never read by the code)
    store,    \* the Store object: its cached metadata (meta) and its crypter (enc)
    packer,   \* the Packer returned by Pack, its pipe and its uploader goroutine
    pipe      \* a crypto pipeline: plaintext, encryptReader, wire, decryptReader

vars == <<tree, dest, layer, clock, m, ls, changed, latest, gs, sem, pc, ret, hist,
          store, packer, pipe>>

-----------------------------------------------------------------------------
(* Bounds of the model. *)

MaxContent == 3     \* file contents are 1..MaxContent
MaxMtime == 2       \* initial modification times are 1..MaxMtime
\* The capacity of uploadSem, 20 in the program, scaled down.
c_CONCURRENT_UPLOADS == 2

(* Program constants. *)

c_BUNDLE_LIMIT_SIZE == 64000
c_BUNDLE_MAX_SIZE == 1024000

-----------------------------------------------------------------------------
(* Paths.  File.Path() joins Root and Name; the universe is a root         *)
(* directory with two files, a sub-directory and a file in it.  The files  *)
(* of a second directory, /s, are there for the bundler alone: no file     *)
(* tree has them.                                                          *)

Paths == {"/r", "/r/a", "/r/b", "/r/d", "/r/d/c"}

ManyNames == <<"01", "02", "03", "04", "05", "06", "07", "08", "09", "10",
               "11", "12", "13", "14", "15", "16", "17", "18", "19", "20">>

ManyPaths == <<"/s/01", "/s/02", "/s/03", "/s/04", "/s/05", "/s/06", "/s/07", "/s/08",
               "/s/09", "/s/10", "/s/11", "/s/12", "/s/13", "/s/14", "/s/15", "/s/16",
               "/s/17", "/s/18", "/s/19", "/s/20">>

ManyIndex(p) == CHOOSE i \in 1..Len(ManyPaths) : ManyPaths[i] = p

Root == [p \in Paths \cup {ManyPaths[i] : i \in 1..Len(ManyPaths)} |->
           CASE p = "/r" -> "/"
             [] p = "/r/a" -> "/r"
             [] p = "/r/b" -> "/r"
             [] p = "/r/d" -> "/r"
             [] p = "/r/d/c" -> "/r/d"
             [] OTHER -> "/s"]

Name == [p \in Paths \cup {ManyPaths[i] : i \in 1..Len(ManyPaths)} |->
           CASE p = "/r" -> "r"
             [] p = "/r/a" -> "a"
             [] p = "/r/b" -> "b"
             [] p = "/r/d" -> "d"
             [] p = "/r/d/c" -> "c"
             [] OTHER -> ManyNames[ManyIndex(p)]]

\* The strings that occur as Root or Name, in byte order ("/" sorts before the
\* digits, the digits before the letters).
StrOrder == <<"/", "/r", "/r/d", "/s">> \o ManyNames \o <<"a", "b", "c", "d", "r">>

StrRank(s) == CHOOSE i \in 1..Len(StrOrder) : StrOrder[i] = s

StrLess(s, t) == StrRank(s) < StrRank(t)

\* strings.HasPrefix(path, p) on the universe.
HasPrefix(path, p) ==
    \/ path = p
    \/ p = "/r" /\ path \in {"/r/a", "/r/b", "/r/d", "/r/d/c"}
    \/ p = "/r/d" /\ path = "/r/d/c"

\* path.Dir / filepath.Dir of a path of the universe ("/" for the tree root).
Dir(p) == Root[p]

DirPaths == {"/r", "/r/d"}

-----------------------------------------------------------------------------
(* Files.  A node of a file tree is what Lstat and a read of the path      *)
(* return; a File is the scanner's record of a node.                       *)

NoNode == [kind |-> "none"]

\* The size of a regular file is the length of its content; the last content is
\* the long one (above c_BUNDLE_LIMIT_SIZE).
SizeOf(c) == IF c = MaxContent THEN 500000 ELSE 50

\* crypto/sha1 of a content: never the zero array, injective.
SHA1(c) == 1000 + c

IsDir(f) == f.kind = "dir"
IsRegular(f) == f.kind = "reg"
IsSymlink(f) == f.kind = "lnk"
HasChecksum(f) == f.sha1 # 0

foundFile(p, node) ==
    [path |-> p, kind |-> node.kind, size |-> node.size, mode |-> node.mode,
     mtime |-> node.mtime, sha1 |-> 0]

-----------------------------------------------------------------------------
(* The scanner.  Scan emits every included path that exists and is not     *)
(* excluded, and walks into every emitted directory.  The order of the     *)
(* result depends on the walkers' scheduling; ScanOrder is one such order. *)

ScanOrder == <<"/r", "/r/d", "/r/d/c", "/r/b", "/r/a">>

RECURSIVE Emitted(_, _, _, _)
Emitted(fs, incl, excl, p) ==
    /\ fs[p] # NoNode
    /\ p \notin excl
    /\ \/ p \in incl
       \/ /\ Dir(p) \in Paths
          /\ fs[Dir(p)] # NoNode
          /\ fs[Dir(p)].kind = "dir"
          /\ Emitted(fs, incl, excl, Dir(p))

RECURSIVE ScanFrom(_, _, _, _)
ScanFrom(fs, incl, excl, i) ==
    IF i > Len(ScanOrder) THEN <<>>
    ELSE (IF Emitted(fs, incl, excl, ScanOrder[i])
          THEN <<foundFile(ScanOrder[i], fs[ScanOrder[i]])>> ELSE <<>>)
         \o ScanFrom(fs, incl, excl, i + 1)

Scan(fs, incl, excl) == ScanFrom(fs, incl, excl, 1)

-----------------------------------------------------------------------------
(* The checksum pass. *)

checksumFile(fs, p) == SHA1(fs[p].content)

NeedsChecksum(f) == (IsRegular(f) \/ IsSymlink(f)) /\ ~HasChecksum(f)

ChecksumFilesFS(fs, groups) ==
    LET noFilesToHash == \A i \in 1..Len(groups) : \A j \in 1..Len(groups[i]) :
                             ~NeedsChecksum(groups[i][j])
    IN  IF noFilesToHash THEN groups
        ELSE [i \in 1..Len(groups) |->
                [j \in 1..Len(groups[i]) |->
                    IF IsRegular(groups[i][j]) \/ IsSymlink(groups[i][j])
                    THEN [groups[i][j] EXCEPT !.sha1 = checksumFile(fs, groups[i][j].path)]
                    ELSE groups[i][j]]]

-----------------------------------------------------------------------------
(* The bundler. *)

ByPathLess(f, g) ==
    IF Root[f.path] = Root[g.path]
    THEN StrLess(Name[f.path], Name[g.path])
    ELSE StrLess(Root[f.path], Root[g.path])

\* sort.Sort(file.ByPath(bundle)): the file at place r is the one with r - 1 files before it.
SortByPath(files) ==
    LET n == Len(files)
        before(i, j) == \/ ByPathLess(files[i], files[j])
                        \/ ~ByPathLess(files[j], files[i]) /\ i > j
        place(i) == Cardinality({j \in 1..n : before(j, i)}) + 1
    IN  [r \in 1..n |-> files[CHOOSE i \in 1..n : place(i) = r]]

\* sort.Sort(file.BySize(bundle)); files of one size come in the order they had.
SortBySize(files) ==
    LET n == Len(files)
        before(i, j) == \/ files[i].size < files[j].size
                        \/ files[i].size = files[j].size /\ i < j
        place(i) == Cardinality({j \in 1..n : before(j, i)}) + 1
    IN  [r \in 1..n |-> files[CHOOSE i \in 1..n : place(i) = r]]

makeBundle(files) == IF Len(files) > 0 THEN <<files>> ELSE <<>>

sortBundlesBySize(bundles) == [i \in 1..Len(bundles) |-> SortBySize(bundles[i])]

sortBundlesByPath(bundles) == [i \in 1..Len(bundles) |-> SortByPath(bundles[i])]

\* The closure nextBundle of bundleByPath, on its captured variables.
nextBundleByPath(st) ==
    IF Len(st.currBundle) > 0
    THEN [st EXCEPT !.out = Append(@, st.currBundle), !.currBundle = <<>>]
    ELSE st

bundleByPathStep(st, f) ==
    LET s1 == IF Root[f.path] # st.currRoot
              THEN [nextBundleByPath(st) EXCEPT !.currRoot = Root[f.path]]
              ELSE st
    IN  [s1 EXCEPT !.currBundle = Append(@, f)]

RECURSIVE bundleByPathInner(_, _)
bundleByPathInner(st, bundle) ==
    IF bundle = <<>> THEN st
    ELSE LET next == bundleByPathStep(st, Head(bundle))
         IN  IF Len(next.currBundle) > 0    \* the file was appended: one iteration is over
             THEN bundleByPathInner(next, Tail(bundle))
             ELSE next

RECURSIVE bundleByPathOuter(_, _)
bundleByPathOuter(st, in) ==
    IF in = <<>> THEN st
    ELSE bundleByPathOuter(nextBundleByPath(bundleByPathInner(st, Head(in))), Tail(in))

bundleByPath(in) ==
    bundleByPathOuter([out |-> <<>>, currRoot |-> "", currBundle |-> <<>>], in).out

RECURSIVE splitBundlesBySizeLimit(_)
splitBundlesBySizeLimit(in) ==
    IF in = <<>> THEN <<>>
    ELSE LET bundle == Head(in)
             dirs == SelectSeq(bundle, LAMBDA f : IsDir(f))
             big == SelectSeq(bundle, LAMBDA f : ~IsDir(f) /\ f.size > c_BUNDLE_LIMIT_SIZE)
             small == SelectSeq(bundle, LAMBDA f : ~IsDir(f) /\ ~(f.size > c_BUNDLE_LIMIT_SIZE))
         IN  <<small, big, dirs>> \o splitBundlesBySizeLimit(Tail(in))

\* A nextBundle that emits the current bundle when it is empty as well.
nextBundleAlways(st) ==
    [st EXCEPT !.out = Append(@, st.currBundle), !.currBundle = <<>>, !.currBytes = 0]

\* The closure nextBundle of bundleSmallFiles, on its captured variables.
nextBundle(st) ==
    IF Len(st.currBundle) > 0
    THEN [st EXCEPT !.out = Append(@, st.currBundle), !.currBundle = <<>>, !.currBytes = 0]
    ELSE st

bundleSmallFilesStep(st, f) ==
    IF IsDir(f) THEN [st EXCEPT !.dirBundle = Append(@, f)]
    ELSE LET s1 == IF f.size > c_BUNDLE_LIMIT_SIZE THEN nextBundle(st) ELSE st
             s2 == IF s1.currBytes > c_BUNDLE_MAX_SIZE THEN nextBundle(s1) ELSE s1
         IN  [s2 EXCEPT !.currBundle = Append(@, f), !.currBytes = @ + f.size]

RECURSIVE bundleSmallFilesInner(_, _)
bundleSmallFilesInner(st, bundle) ==
    IF bundle = <<>> THEN st
    ELSE LET next == bundleSmallFilesStep(st, Head(bundle))
         IN  IF Len(next.currBundle) + Len(next.dirBundle) > 0    \* the file was appended
             THEN bundleSmallFilesInner(next, Tail(bundle))
             ELSE next

RECURSIVE bundleSmallFilesOuter(_, _)
bundleSmallFilesOuter(st, in) ==
    IF in = <<>> THEN st
    ELSE bundleSmallFilesOuter(nextBundle(bundleSmallFilesInner(st, Head(in))), Tail(in))

bundleSmallFiles(in) ==
    LET st == bundleSmallFilesOuter(
                 [out |-> <<>>, currBundle |-> <<>>, currBytes |-> 0, dirBundle |-> <<>>], in)
    IN  IF Len(st.dirBundle) > 0 THEN Append(st.out, st.dirBundle) ELSE st.out

bundleByPathAndSize(files) ==
    bundleSmallFiles(sortBundlesBySize(bundleByPath(sortBundlesByPath(makeBundle(files)))))

bundleSmallFilesAcrossPaths(files) ==
    bundleSmallFiles(sortBundlesByPath(splitBundlesBySizeLimit(makeBundle(files))))

-----------------------------------------------------------------------------
(* Keys. *)

\* One place, whatever the number.
hexLogOnePlace(n) == 1

RECURSIVE hexLog(_)
hexLog(n) == IF n < 16 THEN 1 ELSE 1 + hexLog(n \div 16)

\* The hexadecimal digits of k, most significant first.
RECURSIVE HexDigits(_)
HexDigits(k) == IF k < 16 THEN <<k>> ELSE Append(HexDigits(k \div 16), k % 16)

RECURSIVE ZeroPad(_, _)
ZeroPad(ds, w) == IF Len(ds) >= w THEN ds ELSE ZeroPad(<<0>> \o ds, w)

\* The k-th key returned by keyFactory(size): Sprintf("%0<w>x", k), a digit sequence.
keyFactory(size, k) == ZeroPad(HexDigits(k), hexLog(size))

\* The set key of a run starting at time t; the key is kept as the number whose
\* 16-digit hexadecimal form it is.
manifestKey(t) == t

-----------------------------------------------------------------------------
(* The manifest.  heap[ptr] is the ManifestEntry object at ptr; Entries is *)
(* the slice of pointers; pathMap maps a path to a pointer.  Nil is the    *)
(* nil pointer.                                                            *)

Nil == 0

EmptyMap == [p \in {} |-> Nil]

MapPut(f, k, v) == [x \in DOMAIN f \cup {k} |-> IF x = k THEN v ELSE f[x]]

MapDelete(f, k) == [x \in DOMAIN f \ {k} |-> f[x]]

\* Manifest{pathMap: make(map[string]*ManifestEntry)}
EmptyManifest == [LastSet |-> 0, Entries |-> <<>>, pathMap |-> EmptyMap, heap |-> <<>>]

Has(mm, f) == f.path \in DOMAIN mm.pathMap

\* Update that appends an entry also for a path the manifest has already.
UpdateEntryAlwaysAppends(mm, f, key) ==
    LET parts == IF ~(f.kind = "dir") THEN <<key>> ELSE <<>>
        newEntry == [file |-> f, set |-> mm.LastSet, parts |-> parts]
    IN  [mm EXCEPT !.heap = Append(@, newEntry),
                   !.pathMap = MapPut(@, f.path, Len(mm.heap) + 1),
                   !.Entries = Append(@, Len(mm.heap) + 1)]

\* The body of the inner loop of Update, for one file f of the bundle with key.
UpdateEntry(mm, f, key) ==
    LET parts == IF ~IsDir(f) THEN <<key>> ELSE <<>>
        newEntry == [file |-> f, set |-> mm.LastSet, parts |-> parts]
    IN  IF Has(mm, f)
        THEN [mm EXCEPT !.heap[mm.pathMap[f.path]] = newEntry]
        ELSE [mm EXCEPT !.heap = Append(@, newEntry),
                        !.pathMap = MapPut(@, f.path, Len(mm.heap) + 1),
                        !.Entries = Append(@, Len(mm.heap) + 1)]

RECURSIVE UpdateBundle(_, _, _)
UpdateBundle(mm, bundle, key) ==
    IF bundle = <<>> THEN mm
    ELSE UpdateBundle(UpdateEntry(mm, Head(bundle), key), Tail(bundle), key)

RECURSIVE UpdateBundles(_, _, _)
UpdateBundles(mm, bundles, i) ==
    IF i > Len(bundles) THEN mm
    ELSE UpdateBundles(UpdateBundle(mm, bundles[i], keyFactory(Len(bundles), i - 1)),
                       bundles, i + 1)

Update(mm, files, fs, now) ==
    LET hashed == ChecksumFilesFS(fs, <<files>>)[1]
        bundles == bundleSmallFilesAcrossPaths(hashed)
    IN  UpdateBundles([mm EXCEPT !.LastSet = manifestKey(now)], bundles, 1)

NewManifest(files, fs, now) == Update(EmptyManifest, files, fs, now)

\* The object key "<LastSet>/<part key>" of a part of an entry.
ObjKey(set, key) == <<set, key>>

\* LatestEntries: object key -> the entry pointers that have a part with that key.
RECURSIVE LatestEntriesFrom(_, _, _)
LatestEntriesFrom(mm, i, entries) ==
    IF i > Len(mm.Entries) THEN entries
    ELSE LET e == mm.heap[mm.Entries[i]]
         IN  IF e.set = mm.LastSet /\ Len(e.parts) > 0
             THEN LET obj == ObjKey(mm.LastSet, e.parts[1])
                      sofar == IF obj \in DOMAIN entries THEN entries[obj] ELSE <<>>
                  IN  LatestEntriesFrom(mm, i + 1, MapPut(entries, obj, Append(sofar, mm.Entries[i])))
             ELSE LatestEntriesFrom(mm, i + 1, entries)

LatestEntries(mm) == LatestEntriesFrom(mm, 1, EmptyMap)

\* removeEntry, in the three groups of statements between which another
\* goroutine's statements can fall: the reads of oldPath, lastIndex and
\* lastEntry; then the writes.  A stale lastIndex is an index out of range.
removeEntryRead(mm, ptr) ==
    [oldPath |-> mm.heap[ptr].file.path,
     lastIndex |-> Len(mm.Entries),
     lastEntry |-> IF Len(mm.Entries) > 0 THEN mm.Entries[Len(mm.Entries)] ELSE Nil]

removeEntryPanics(mm, loc) == loc.lastIndex < 1 \/ loc.lastIndex > Len(mm.Entries)

removeEntryWrite(mm, ptr, loc) ==
    LET h1 == [mm.heap EXCEPT ![ptr] = mm.heap[loc.lastEntry]]
        pm1 == MapPut(mm.pathMap, mm.heap[loc.lastEntry].file.path, ptr)
    IN  [mm EXCEPT !.heap = h1,
                   !.Entries = SubSeq(mm.Entries, 1, loc.lastIndex - 1),
                   !.pathMap = MapDelete(pm1, loc.oldPath)]

\* removeEntry without its last statement, delete(m.pathMap, oldPath).
removeEntryKeepsOldPath(mm, ptr) ==
    [removeEntryWrite(mm, ptr, removeEntryRead(mm, ptr)) EXCEPT
        !.pathMap = MapPut(@, mm.heap[ptr].file.path, ptr)]

removeEntry(mm, ptr) == removeEntryWrite(mm, ptr, removeEntryRead(mm, ptr))

\* A Remove that drops the last entry, whichever path was asked for.
RemoveLastEntry(mm, f) ==
    IF f.path \notin DOMAIN mm.pathMap THEN mm
    ELSE removeEntry(mm, mm.Entries[Len(mm.Entries)])

\* Remove, run without interference.
Remove(mm, f) ==
    IF f.path \notin DOMAIN mm.pathMap THEN mm
    ELSE removeEntry(mm, mm.pathMap[f.path])

HasIdentical(mm, their) ==
    IF their.path \notin DOMAIN mm.pathMap THEN FALSE
    ELSE LET our == mm.heap[mm.pathMap[their.path]].file
         IN  IF ~IsDir(our) /\ our.size # their.size THEN FALSE
             ELSE IF our.mode # their.mode THEN FALSE
             ELSE IF our.mtime # their.mtime THEN our.sha1 = their.sha1
             ELSE TRUE

\* The first loop of Compare: the files changed in size or new, and the touched ones.
RECURSIVE ComparePass1(_, _, _)
ComparePass1(before, after, acc) ==
    IF after = <<>> THEN acc
    ELSE LET a == Head(after)
             b == before.heap[before.pathMap[a.path]].file
             acc1 == IF Has(before, a)
                     THEN IF ~IsDir(a) /\ a.size # b.size
                          THEN [acc EXCEPT !.changed = Append(@, a)]
                          ELSE IF a.mtime # b.mtime
                               THEN [acc EXCEPT !.touched = Append(@, a)]
                               ELSE acc
                     ELSE [acc EXCEPT !.changed = Append(@, a)]
         IN  ComparePass1(before, Tail(after), acc1)

RECURSIVE ComparePass2(_, _, _)

\* The second loop of Compare without its test: every touched file is kept.
ComparePass2KeepsAll(before, touched, chg) == chg \o touched

\* The second loop of Compare: the touched files whose checksum differs.
ComparePass2(before, touched, chg) ==
    IF touched = <<>> THEN chg
    ELSE LET a == Head(touched)
             b == before.heap[before.pathMap[a.path]].file
         IN  ComparePass2(before, Tail(touched),
                          IF a.sha1 # b.sha1 THEN Append(chg, a) ELSE chg)

\* Compare without the second loop's checksum test: every touched file is returned.
CompareTouchedIsChanged(before, after, fs) ==
    LET p1 == ComparePass1(before, after, [touched |-> <<>>, changed |-> <<>>])
        hashed == ChecksumFilesFS(fs, <<p1.touched, p1.changed>>)
    IN  hashed[2] \o hashed[1]

Compare(before, after, fs) ==
    LET p1 == ComparePass1(before, after, [touched |-> <<>>, changed |-> <<>>])
        hashed == ChecksumFilesFS(fs, <<p1.touched, p1.changed>>)
    IN  ComparePass2(before, hashed[1], hashed[2])

-----------------------------------------------------------------------------
(* The JSON codec of the manifest.  MarshalJSON omits the size of a        *)
(* directory, an unset checksum and empty parts; a field absent from the   *)
(* JSON text is left at its zero value by UnmarshalJSON (for parts, the    *)
(* empty list again).                                                      *)

Omitted == -1

\* A MarshalJSON that leaves the checksum out of every entry.
EntryMarshalJSONNoChecksum(e) ==
    [path |-> e.file.path, kind |-> e.file.kind, mode |-> e.file.mode,
     mtime |-> e.file.mtime, set |-> e.set,
     parts |-> e.parts,
     size |-> IF ~IsDir(e.file) THEN e.file.size ELSE Omitted,
     sha1 |-> Omitted]

EntryMarshalJSON(e) ==
    [path |-> e.file.path, kind |-> e.file.kind, mode |-> e.file.mode,
     mtime |-> e.file.mtime, set |-> e.set,
     parts |-> e.parts,
     size |-> IF ~IsDir(e.file) THEN e.file.size ELSE Omitted,
     sha1 |-> IF HasChecksum(e.file) THEN e.file.sha1 ELSE Omitted]

EntryUnmarshalJSON(j) ==
    [file |-> [path |-> j.path, kind |-> j.kind, mode |-> j.mode, mtime |-> j.mtime,
               size |-> IF j.size = Omitted THEN 0 ELSE j.size,
               sha1 |-> IF j.sha1 = Omitted THEN 0 ELSE j.sha1],
     set |-> j.set,
     parts |-> j.parts]

\* Manifest.JSON: version 3, the entries in the order of Entries.
JSON(mm) ==
    [version |-> 3, lastSet |-> mm.LastSet,
     entries |-> [i \in 1..Len(mm.Entries) |-> EntryMarshalJSON(mm.heap[mm.Entries[i]])]]

RECURSIVE buildPathMapFrom(_, _, _)
buildPathMapFrom(heap, i, pm) ==
    IF i > Len(heap) THEN pm
    ELSE buildPathMapFrom(heap, i + 1, MapPut(pm, heap[i].file.path, i))

buildPathMap(mm) == [mm EXCEPT !.pathMap = buildPathMapFrom(mm.heap, 1, EmptyMap)]

\* ReadManifestData of a version 3 text: each entry is a fresh object.
ReadManifestData(data) ==
    buildPathMap([LastSet |-> data.lastSet,
                  Entries |-> [i \in 1..Len(data.entries) |-> i],
                  pathMap |-> EmptyMap,
                  heap |-> [i \in 1..Len(data.entries) |-> EntryUnmarshalJSON(data.entries[i])]])

-----------------------------------------------------------------------------
(* The store.  The layer holds the complete objects (blobs and manifests), *)
(* the keys of objects left incomplete by an interrupted put, and the      *)
(* "manifest/latest" field of the userData of the metadata object (Nil:    *)
(* not set).  sMeta is the Store's cached copy of the metadata (s.meta).   *)
(* The manifest objects are immutable once written, so the local disk      *)
(* cache of cacheGetStoreObject returns what the layer holds and is not    *)
(* modelled separately.                                                    *)
(* A put that fails or is interrupted can leave an incomplete object      *)
(* under the key of a blob or of a manifest; the metadata object is        *)
(* replaced as a whole or not at all, as MockStorage and S3 do.            *)

EmptyLayer ==
    [blobs |-> EmptyMap, manifests |-> EmptyMap, partial |-> {}, latestPtr |-> Nil,
     sMeta |-> [loaded |-> FALSE, latest |-> Nil]]

\* getStoreMetadata: the cached metadata if any, else the layer's, which is then cached.
getStoreMetadata(lyr) ==
    IF lyr.sMeta.loaded THEN lyr
    ELSE [lyr EXCEPT !.sMeta = [loaded |-> TRUE, latest |-> lyr.latestPtr]]

\* GetMetadata("manifest/latest"): Nil stands for ErrMissingMetadata.
getUserMetadata(lyr) == getStoreMetadata(lyr).sMeta.latest

\* PutMetadata("manifest/latest", v) when the layer's put succeeds.
putUserMetadata(lyr, v) ==
    [lyr EXCEPT !.latestPtr = v, !.sMeta = [loaded |-> TRUE, latest |-> v]]

\* PutMetadata("manifest/latest", v) when the layer's put fails: md.UserData is
\* the map of the cached metadata unless that was nil, so the cached map has
\* the new value already.
putUserMetadataFails(lyr, v) ==
    LET l1 == getStoreMetadata(lyr)
    IN  IF l1.sMeta.latest # Nil THEN [l1 EXCEPT !.sMeta.latest = v] ELSE l1

\* getLatestManifest: the manifest the pointer names; "notfound" when there is no
\* pointer (the legacy object "manifest/latest" does not exist in these stores)
\* or no such object.
getLatestManifest(lyr) ==
    LET lastSet == getUserMetadata(lyr)
    IN  IF lastSet # Nil /\ lastSet \in DOMAIN lyr.manifests
        THEN [err |-> "nil", data |-> lyr.manifests[lastSet]]
        ELSE [err |-> "notfound", data |-> <<>>]

\* Seconds precision of the tar header: times are in half seconds.
TarTime(t) == 2 * (t \div 2)

\* archive.PackReader(files...): the header and the content of each file, read at
\* pack time.
PackReader(fs, files) ==
    [i \in 1..Len(files) |->
        [path |-> files[i].path, kind |-> files[i].kind, mode |-> files[i].mode,
         size |-> files[i].size, mtime |-> TarTime(files[i].mtime),
         content |-> fs[files[i].path].content]]

\* The files of a bundle as backupLatest collects them from the entry pointers.
RECURSIVE BundleFiles(_, _)
BundleFiles(heap, ptrs) ==
    IF ptrs = <<>> THEN <<>>
    ELSE (IF IsDir(heap[Head(ptrs)].file) THEN <<>> ELSE <<heap[Head(ptrs)].file>>)
         \o BundleFiles(heap, Tail(ptrs))

\* A run that reads a not-found error as an empty manifest to compare with and
\* to update.
PrepareBackupUpdatesEmpty(fs, lyr, now) ==
    LET scan == Scan(fs, {"/r"}, {})
        chg == Compare(EmptyManifest, scan, fs)
    IN  IF Len(scan) = 0
        THEN [scan |-> scan, changed |-> <<>>, run |-> FALSE, m |-> EmptyManifest,
              prior |-> EmptyManifest]
        ELSE [scan |-> scan, changed |-> chg, run |-> Len(chg) > 0, prior |-> EmptyManifest,
              m |-> EmptyManifest]

\* The first part of ScanAndBackup, up to the call of backupLatest: what was
\* scanned, what Compare returned, the manifest to back up and whether there is
\* anything to do; prior is the manifest that was read, if any.
PrepareBackup(fs, lyr, now) ==
    LET scan == Scan(fs, {"/r"}, {})
        got == getLatestManifest(lyr)
        prior == ReadManifestData(got.data)
        chg == Compare(prior, scan, fs)
    IN  IF Len(scan) = 0
        THEN [scan |-> scan, changed |-> <<>>, run |-> FALSE, m |-> EmptyManifest,
              prior |-> EmptyManifest]
        ELSE IF got.err = "nil"
        THEN IF Len(chg) > 0
             THEN [scan |-> scan, changed |-> chg, run |-> TRUE, prior |-> prior,
                   m |-> Update(prior, chg, fs, now)]
             ELSE [scan |-> scan, changed |-> chg, run |-> FALSE, prior |-> prior, m |-> prior]
        ELSE [scan |-> scan, changed |-> scan, run |-> TRUE, prior |-> EmptyManifest,
              m |-> NewManifest(scan, fs, now)]

-----------------------------------------------------------------------------
(* The store in detail (packages store, store/crypto, store/zip and        *)
(* store/storage).  A blob is a sequence of bytes.  gzip is a framing of   *)
(* the data between a magic number and a trailer with a checksum and the   *)
(* length; the block cipher adds the key to every byte, chained as CBC     *)
(* chains its blocks; the HMAC is a keyed sum over the bytes it signs.     *)
(* PBKDF2 is an injective function of secret and salt.  The envelope has   *)
(* the layout of the program: the IV, the padded ciphertext blocks, the    *)
(* signature.                                                              *)

c_BLOCK_SIZE == 16       \* aes.BlockSize
c_HMAC_SIZE == 20        \* sha1.Size
c_ENC_KEY_SIZE == 32
c_HMAC_KEY_SIZE == 64

c_METADATA_KEY == "metadata"

RECURSIVE Sum(_)
Sum(bytes) ==
    IF bytes = <<>> THEN 0
    ELSE IF Len(bytes) = 1 THEN bytes[1]
    ELSE LET half == Len(bytes) \div 2
         IN  Sum(SubSeq(bytes, 1, half)) + Sum(SubSeq(bytes, half + 1, Len(bytes)))

\* The reads of a source that delivers at most n bytes per Read, in order.
RECURSIVE Reads(_, _)
Reads(data, n) ==
    IF data = <<>> THEN <<>>
    ELSE IF Len(data) <= n THEN <<data>>
    ELSE <<SubSeq(data, 1, n)>> \o Reads(SubSeq(data, n + 1, Len(data)), n)

\* io.Copy: what the writer has got once every read was written to it.
RECURSIVE Copy(_)
Copy(reads) == IF reads = <<>> THEN <<>> ELSE Head(reads) \o Copy(Tail(reads))

GzMagic == <<31, 139>>

GzTrailer(data) == <<Sum(data) % 256, Len(data) % 256>>

\* CompressReader, read to its end: the gzip stream of what was copied from in.
\* (The data of the model are shorter than c_FLUSH_SIZE: no Flush happens.)
CompressReader(reads) == GzMagic \o Copy(reads) \o GzTrailer(Copy(reads))

\* DecompressReader, read to its end.
DecompressReader(z) ==
    IF Len(z) < 4 \/ SubSeq(z, 1, 2) # GzMagic
    THEN [err |-> "gzip: invalid header", data |-> <<>>]
    ELSE LET data == SubSeq(z, 3, Len(z) - 2)
         IN  IF SubSeq(z, Len(z) - 1, Len(z)) # GzTrailer(data)
             THEN [err |-> "gzip: invalid checksum", data |-> <<>>]
             ELSE [err |-> "nil", data |-> data]

\* Keys: a key is its length and its value.
NoKeys == [EncKey |-> [len |-> 0, v |-> 0], AuthKey |-> [len |-> 0, v |-> 0]]

DeriveKeys(secret, salt) ==
    [EncKey |-> [len |-> c_ENC_KEY_SIZE, v |-> 16 * secret + salt],
     AuthKey |-> [len |-> c_HMAC_KEY_SIZE, v |-> 100 + 16 * secret + salt]]

\* NewCrypter: a pointer is the sequence of what it points to, nil the empty
\* one, which here stands for the error of a key of the wrong length.
NewCrypter(keys) ==
    IF keys.EncKey.len # c_ENC_KEY_SIZE \/ keys.AuthKey.len # c_HMAC_KEY_SIZE THEN <<>>
    ELSE <<[bc |-> keys.EncKey.v, authKey |-> keys.AuthKey.v]>>

\* A padding that adds nothing to a buffer of whole blocks.
padBufferToBlock(buf) ==
    LET pad == (c_BLOCK_SIZE - (Len(buf) % c_BLOCK_SIZE)) % c_BLOCK_SIZE
    IN  buf \o [i \in 1..pad |-> pad]

padBuffer(buf) ==
    LET pad == c_BLOCK_SIZE - (Len(buf) % c_BLOCK_SIZE)
    IN  buf \o [i \in 1..pad |-> pad]

\* unpadBuffer: the error, or the buffer without its padding.
unpadBuffer(buf) ==
    LET pad == buf[Len(buf)]
    IN  IF pad > c_BLOCK_SIZE \/ pad <= 0
        THEN [err |-> "invalid padding length", data |-> <<>>]
        ELSE IF \E i \in (Len(buf) - pad + 1)..Len(buf) : buf[i] # pad
        THEN [err |-> "invalid padding bytes", data |-> <<>>]
        ELSE [err |-> "nil", data |-> SubSeq(buf, 1, Len(buf) - pad)]

\* cipher.NewCBCEncrypter(bc, iv).CryptBlocks over whole blocks.
RECURSIVE CBCEncrypt(_, _, _)
CBCEncrypt(bc, prev, text) ==
    IF text = <<>> THEN <<>>
    ELSE LET blk == [j \in 1..c_BLOCK_SIZE |-> (text[j] + prev[j] + bc) % 256]
         IN  blk \o CBCEncrypt(bc, blk, SubSeq(text, c_BLOCK_SIZE + 1, Len(text)))

RECURSIVE CBCDecrypt(_, _, _)
CBCDecrypt(bc, prev, text) ==
    IF text = <<>> THEN <<>>
    ELSE LET blk == SubSeq(text, 1, c_BLOCK_SIZE)
         IN  [j \in 1..c_BLOCK_SIZE |-> (blk[j] - prev[j] - bc) % 256]
             \o CBCDecrypt(bc, blk, SubSeq(text, c_BLOCK_SIZE + 1, Len(text)))

\* hmac.New(sha1.New, authKey) over the bytes written to it.
HMAC(authKey, bytes) == [j \in 1..c_HMAC_SIZE |-> (authKey + j * (1 + Sum(bytes))) % 256]

\* The IV read from rand.Reader, by its seed.
IV(seed) == [j \in 1..c_BLOCK_SIZE |-> (seed + j) % 256]

\* EncryptReader, read to its end: iv || ciphertext || hmac.
EncryptReader(e, iv, plaintext) ==
    LET ct == CBCEncrypt(e.bc, iv, padBuffer(plaintext))
    IN  iv \o ct \o HMAC(e.authKey, iv \o ct)

\* DecryptReader, read to its end.  A stream of fewer than c_BLOCK_SIZE bytes is
\* too short.  At the end of the input the bytes before the last c_HMAC_SIZE are
\* the ciphertext; their number is tested with Go's %, whose result has the sign
\* of the dividend, so that -16 passes and io.CopyN of a negative count copies
\* nothing: the sanity check panics.  An authentic stream with no block at all
\* panics in unpadBuffer.
DecryptReader(e, stream) ==
    IF Len(stream) < c_BLOCK_SIZE THEN [err |-> "ciphertext too short", data |-> <<>>]
    ELSE LET iv == SubSeq(stream, 1, c_BLOCK_SIZE)
             enc == SubSeq(stream, c_BLOCK_SIZE + 1, Len(stream))
             target == Len(enc) - c_HMAC_SIZE
         IN  IF target < 0 /\ (-target) % c_BLOCK_SIZE = 0
             THEN [err |-> "panic", data |-> <<>>]
             ELSE IF target < 0 \/ target % c_BLOCK_SIZE # 0
             THEN [err |-> "ciphertext is not a multiple of the block size", data |-> <<>>]
             ELSE LET ct == SubSeq(enc, 1, target)
                      mac == SubSeq(enc, target + 1, Len(enc))
                  IN  IF mac # HMAC(e.authKey, iv \o ct)
                      THEN [err |-> "ciphertext not authentic", data |-> <<>>]
                      ELSE IF target = 0 THEN [err |-> "panic", data |-> <<>>]
                      ELSE unpadBuffer(CBCDecrypt(e.bc, iv, ct))

(* The crypto streams, Read by Read.  A reader is its fields: text is what  *)
(* its source has still to deliver, cbc the block the chaining continues   *)
(* from, mac the bytes written to the HMAC so far, buf and enc the two     *)
(* bytes.Buffers, fin the flag.  A Read into a slice of lenb bytes gives   *)
(* the reader after it, the bytes put into the slice and the error.  The   *)
(* sources read without an error of their own; how they cut their data     *)
(* into reads is hidden by io.CopyN, which reads on until it has its count *)
(* or the source is at its end.                                            *)

\* A remainder that finds every count a count of whole blocks.
RemZero(a, b) == 0

\* Go's %: the remainder has the sign of the dividend.
Rem(a, b) == IF a >= 0 THEN a % b ELSE -((-a) % b)

\* A buffer Read that forgets what the slice had no room for.
BufferReadDropsRest(buf, lenb) ==
    LET n == IF Len(buf) < lenb THEN Len(buf) ELSE lenb
    IN  [data |-> SubSeq(buf, 1, n), rest |-> <<>>,
         err |-> IF buf = <<>> /\ lenb > 0 THEN "EOF" ELSE "nil"]

\* bytes.Buffer.Read into a slice of lenb bytes.
BufferRead(buf, lenb) ==
    LET n == IF Len(buf) < lenb THEN Len(buf) ELSE lenb
    IN  [data |-> SubSeq(buf, 1, n), rest |-> SubSeq(buf, n + 1, Len(buf)),
         err |-> IF buf = <<>> /\ lenb > 0 THEN "EOF" ELSE "nil"]

\* io.CopyN(dst, src, n): the bytes written to dst, what src keeps, the error.
\* A negative n copies nothing and is no error.
CopyN(src, n) ==
    LET k == IF n < 0 THEN 0 ELSE IF Len(src) < n THEN Len(src) ELSE n
    IN  [data |-> SubSeq(src, 1, k), rest |-> SubSeq(src, k + 1, Len(src)),
         err |-> IF k < n THEN "EOF" ELSE "nil"]

\* The last block of a run of whole blocks, or prev for an empty run.
LastBlock(prev, blocks) ==
    IF blocks = <<>> THEN prev
    ELSE SubSeq(blocks, Len(blocks) - c_BLOCK_SIZE + 1, Len(blocks))

\* The bytes to fetch for a slice with room for lenb - n more bytes.
target(lenb, n) == ((lenb - n) \div c_BLOCK_SIZE + 1) * c_BLOCK_SIZE

\* aesCrypter.EncryptReader: the reader starts with the IV in its buffer.
NewEncryptReader(e, iv, plaintext) ==
    [text |-> plaintext, cbc |-> iv, mac |-> iv, buf |-> iv, fin |-> FALSE]

\* encryptReader.Read
encryptReaderRead(e, r, lenb) ==
    LET d == BufferRead(r.buf, lenb)
        n == Len(d.data)
    IN  IF n = lenb \/ r.fin
        THEN [r |-> [r EXCEPT !.buf = d.rest], data |-> d.data, err |-> d.err]
        ELSE LET c == CopyN(r.text, target(lenb, n))
                 fin == c.err = "EOF"
                 plain == IF fin THEN padBuffer(d.rest \o c.data) ELSE d.rest \o c.data
                 ct == CBCEncrypt(e.bc, r.cbc, plain)
                 mac == r.mac \o ct
                 buf == IF fin THEN ct \o HMAC(e.authKey, mac) ELSE ct
                 last == BufferRead(buf, lenb - n)
             IN  [r |-> [text |-> c.rest, cbc |-> LastBlock(r.cbc, ct), mac |-> mac,
                         buf |-> last.rest, fin |-> fin],
                  data |-> d.data \o last.data, err |-> last.err]

ErrTooShort == "ciphertext too short"
ErrNotBlocks == "ciphertext is not a multiple of the block size"
ErrNotAuthentic == "ciphertext not authentic"

\* aesCrypter.DecryptReader: a pointer to the reader (nil with an error).
NewDecryptReader(e, ciphertext) ==
    LET iv == CopyN(ciphertext, c_BLOCK_SIZE)
    IN  IF Len(iv.data) < c_BLOCK_SIZE \/ iv.err = "EOF"
        THEN [r |-> <<>>, err |-> ErrTooShort]
        ELSE [r |-> <<[text |-> iv.rest, cbc |-> iv.data, mac |-> iv.data, buf |-> <<>>,
                       fin |-> FALSE, enc |-> <<>>]>>,
              err |-> "nil"]

\* decryptReader.Read.  The sanity check after the second CopyN, CryptBlocks
\* over a buffer that is not of whole blocks, and unpadBuffer of an empty
\* buffer panic.  The buffer is decrypted before the signature is compared.
decryptReaderRead(e, r, lenb) ==
    LET d == BufferRead(r.buf, lenb)
        n == Len(d.data)
    IN  IF n = lenb \/ r.fin
        THEN [r |-> [r EXCEPT !.buf = d.rest], data |-> d.data, err |-> d.err]
        ELSE LET c == CopyN(r.text, target(lenb, n) + c_HMAC_SIZE + 1)
                 fin == c.err = "EOF"
                 enc == r.enc \o c.data
                 tgt == IF fin THEN Len(enc) - c_HMAC_SIZE ELSE target(lenb, n)
                 r1 == [r EXCEPT !.buf = d.rest, !.text = c.rest, !.fin = fin, !.enc = enc]
             IN  IF fin /\ Rem(tgt, c_BLOCK_SIZE) # 0
                 THEN [r |-> r1, data |-> d.data, err |-> ErrNotBlocks]
                 ELSE LET p == CopyN(enc, tgt)
                          buf == d.rest \o p.data
                          mac == r.mac \o buf
                          r2 == [r1 EXCEPT !.enc = p.rest, !.buf = buf]
                      IN  IF Len(p.data) # tgt \/ Len(buf) % c_BLOCK_SIZE # 0
                          THEN [r |-> r2, data |-> d.data, err |-> "panic"]
                          ELSE LET plain == CBCDecrypt(e.bc, r.cbc, buf)
                                   r3 == [r2 EXCEPT !.mac = mac, !.buf = plain,
                                                    !.cbc = LastBlock(r.cbc, buf)]
                                   u == IF fin /\ plain # <<>> THEN unpadBuffer(plain)
                                        ELSE [err |-> "nil", data |-> plain]
                                   last == BufferRead(u.data, lenb - n)
                               IN  IF fin /\ p.rest # HMAC(e.authKey, mac)
                                   THEN [r |-> r3, data |-> d.data, err |-> ErrNotAuthentic]
                                   ELSE IF fin /\ plain = <<>>
                                   THEN [r |-> r3, data |-> d.data, err |-> "panic"]
                                   ELSE IF u.err # "nil"
                                   THEN [r |-> r3, data |-> d.data, err |-> u.err]
                                   ELSE [r |-> [r3 EXCEPT !.buf = last.rest],
                                         data |-> d.data \o last.data, err |-> last.err]

\* No pipeline: the specifications of the other components leave it alone.
NoPipe == [x |-> <<>>, pc |-> "none"]

(* The storage layer: whether the container exists, and the objects by     *)
(* key.  The object under c_METADATA_KEY is a document; the others are     *)
(* blobs.                                                                  *)

NewMockStorage == [exists |-> TRUE, dataStore |-> EmptyMap]

\* The error of MockStorage.GetReader for a key it does not have.
MockErrNoSuchKey == "The specified key does not exist."

IsNotExist(err) == err = MockErrNoSuchKey

LayerGetReader(lyr, key) ==
    IF key \in DOMAIN lyr.dataStore
    THEN [err |-> "nil", data |-> lyr.dataStore[key]]
    ELSE [err |-> MockErrNoSuchKey, data |-> <<>>]

\* A put of the layer that succeeds.
LayerPutReader(lyr, key, data) ==
    [lyr EXCEPT !.exists = TRUE, !.dataStore = MapPut(@, key, data)]

(* The metadata document.  A field that is absent is Omitted; a field      *)
(* whose text does not decode into the type of the Go field is Invalid; a  *)
(* document that is not JSON is BadSyntax.  A userData value is a type and *)
(* the text of the value: JSON has one kind of number, which decodes into  *)
(* float64.  A map is nil or has keys and values (kv).                     *)

Invalid == -2

NilMap == [nil |-> TRUE, kv |-> EmptyMap]

MakeMap(kv) == [nil |-> FALSE, kv |-> kv]

NoValue == [t |-> "nil", v |-> ""]

BadSyntax ==
    [syntax |-> FALSE, version |-> Omitted, storeFormat |-> Omitted, salt |-> Omitted,
     userData |-> NilMap]

MetaDoc(version, storeFormat, salt, userData) ==
    [syntax |-> TRUE, version |-> version, storeFormat |-> storeFormat, salt |-> salt,
     userData |-> userData]

ParseVersionJSON(raw) ==
    IF ~raw.syntax \/ raw.version = Invalid THEN [ver |-> -1, ok |-> FALSE]
    ELSE [ver |-> IF raw.version = Omitted THEN 0 ELSE raw.version, ok |-> TRUE]

\* A value as json.Marshal writes it and as json.Unmarshal reads it into an
\* interface{}.
MarshalValue(v) == IF v.t \in {"int", "float64"} THEN [t |-> "number", v |-> v.v] ELSE v
UnmarshalValue(j) == IF j.t = "number" THEN [t |-> "float64", v |-> j.v] ELSE j

\* newMetadata(salt)
newMetadata(salt) == [Version |-> 1, StoreFormat |-> 1, Salt |-> salt, UserData |-> NilMap]

\* json.Marshal(md)
MarshalMetadata(md) ==
    MetaDoc(md.Version, md.StoreFormat, md.Salt,
            [md.UserData EXCEPT !.kv = [k \in DOMAIN @ |-> MarshalValue(@[k])]])

\* json.Unmarshal(data, &md): ok is false when a field does not decode.
UnmarshalMetadata(raw) ==
    IF ~raw.syntax \/ Invalid \in {raw.version, raw.storeFormat, raw.salt}
    THEN [ok |-> FALSE, md |-> newMetadata(0)]
    ELSE [ok |-> TRUE,
          md |-> [Version |-> IF raw.version = Omitted THEN 0 ELSE raw.version,
                  StoreFormat |-> IF raw.storeFormat = Omitted THEN 0 ELSE raw.storeFormat,
                  Salt |-> IF raw.salt = Omitted THEN 0 ELSE raw.salt,
                  UserData |-> [raw.userData EXCEPT
                                   !.kv = [k \in DOMAIN @ |-> UnmarshalValue(@[k])]]]]

(* The Store.  meta points to the cached metadata (nil: none); the         *)
(* UserData map of a copy of the cached struct is the cached map itself.   *)
(* enc points to the crypter (nil: not connected).  An operation returns   *)
(* the store, the layer and its results.                                   *)

NewStore == [meta |-> <<>>, enc |-> <<>>]

isConnected(st) == st.enc # <<>>

isForbiddenKey(key) == key = c_METADATA_KEY

\* getStoreMetadata of the Store struct: the cached metadata, or the document of
\* the layer, which is cached when it is read without error.
loadStoreMetadata(st, lyr) ==
    IF st.meta # <<>> THEN [store |-> st, md |-> st.meta[1], err |-> "nil"]
    ELSE LET got == LayerGetReader(lyr, c_METADATA_KEY)
             pv == ParseVersionJSON(got.data)
             um == UnmarshalMetadata(got.data)
         IN  IF got.err # "nil" THEN [store |-> st, md |-> newMetadata(0), err |-> got.err]
             ELSE IF pv.ok /\ pv.ver = 1 /\ um.ok
             THEN [store |-> [st EXCEPT !.meta = <<um.md>>], md |-> um.md, err |-> "nil"]
             ELSE IF pv.ok /\ pv.ver # 1
             THEN [store |-> st, md |-> newMetadata(0), err |-> "bad version"]
             ELSE [store |-> st, md |-> newMetadata(0), err |-> "malformed metadata"]

\* putStoreMetadata: ok tells whether the put of the layer succeeds.
putStoreMetadata(st, lyr, md, ok) ==
    IF ok THEN [store |-> [st EXCEPT !.meta = <<md>>],
                layer |-> LayerPutReader(lyr, c_METADATA_KEY, MarshalMetadata(md)),
                err |-> "nil"]
    ELSE [store |-> st, layer |-> lyr, err |-> "put failed"]

\* Open(keys)
Open(st, lyr, keys) ==
    IF ~lyr.exists THEN [store |-> st, err |-> "remote store not initialized"]
    ELSE IF NewCrypter(keys) = <<>> THEN [store |-> st, err |-> "invalid key length"]
    ELSE [store |-> [st EXCEPT !.enc = NewCrypter(keys)], err |-> "nil"]

\* An Unlock that derives the keys and does not open the store with them.
UnlockWithoutOpen(st, lyr, secret) ==
    LET r == loadStoreMetadata(st, lyr)
        keys == DeriveKeys(secret, r.md.Salt)
    IN  IF r.err # "nil"
        THEN [store |-> r.store, keys |-> NoKeys,
              err |-> IF IsNotExist(r.err) THEN "remote store not initialized" ELSE r.err]
        ELSE [store |-> r.store, keys |-> keys, err |-> "nil"]

\* Unlock(secret)
Unlock(st, lyr, secret) ==
    LET r == loadStoreMetadata(st, lyr)
        keys == DeriveKeys(secret, r.md.Salt)
    IN  IF r.err # "nil"
        THEN [store |-> r.store, keys |-> NoKeys,
              err |-> IF IsNotExist(r.err) THEN "remote store not initialized" ELSE r.err]
        ELSE [store |-> Open(r.store, lyr, keys).store, keys |-> keys,
              err |-> Open(r.store, lyr, keys).err]

\* Wipe(secret): salt is the new salt, ok the outcome of the put of the metadata.
Wipe(st, lyr, secret, salt, ok) ==
    LET created == [lyr EXCEPT !.exists = TRUE]
        put == putStoreMetadata(st, created, newMetadata(salt), ok)
        un == Unlock(put.store, put.layer, secret)
    IN  IF put.err # "nil"
        THEN [store |-> put.store, layer |-> put.layer, keys |-> NoKeys, err |-> put.err]
        ELSE [store |-> un.store, layer |-> put.layer, keys |-> un.keys, err |-> un.err]

\* The outcomes of zip.CompressReader's own error result.  The goroutine it
\* starts assigns the error of its first io.CopyN to the named result err while
\* the function returns: for a source that is at its end at once, the caller can
\* get io.EOF.
CompressReaderErrs(data) == IF data = <<>> THEN {"nil", "EOF"} ELSE {"nil"}

\* Store.PutReader(key, r) for a source that delivers data in reads of n bytes;
\* zerr is the error result of CompressReader, iv the seed of the IV, ok the
\* outcome of the put of the layer.
StorePutReader(st, lyr, key, data, n, zerr, iv, ok) ==
    IF isForbiddenKey(key) THEN [layer |-> lyr, err |-> "read/write to key name is forbidden"]
    ELSE IF ~isConnected(st) THEN [layer |-> lyr, err |-> "store not ready for reading/writing"]
    ELSE IF zerr # "nil" THEN [layer |-> lyr, err |-> zerr]
    ELSE IF ~ok THEN [layer |-> lyr, err |-> "put failed"]
    ELSE [layer |-> LayerPutReader(lyr, key,
                        EncryptReader(st.enc[1], IV(iv), CompressReader(Reads(data, n)))),
          err |-> "nil"]

\* A Get that looks at the connection before it looks at the key.
StoreGetConnectedFirst(st, lyr, key) ==
    IF ~isConnected(st) THEN [err |-> "store not ready for reading/writing", data |-> <<>>]
    ELSE IF isForbiddenKey(key) THEN [err |-> "read/write to key name is forbidden", data |-> <<>>]
    ELSE LET got == LayerGetReader(lyr, key)
             plain == DecryptReader(st.enc[1], got.data)
         IN  IF got.err # "nil" THEN [err |-> got.err, data |-> <<>>]
             ELSE IF plain.err # "nil" THEN plain
             ELSE DecompressReader(plain.data)

\* Store.Get(key): GetReader, read to its end.
StoreGet(st, lyr, key) ==
    IF isForbiddenKey(key) THEN [err |-> "read/write to key name is forbidden", data |-> <<>>]
    ELSE IF ~isConnected(st) THEN [err |-> "store not ready for reading/writing", data |-> <<>>]
    ELSE LET got == LayerGetReader(lyr, key)
             plain == DecryptReader(st.enc[1], got.data)
         IN  IF got.err # "nil" THEN [err |-> got.err, data |-> <<>>]
             ELSE IF plain.err # "nil" THEN plain
             ELSE DecompressReader(plain.data)

\* GetMetadata(key)
StoreGetMetadata(st, lyr, key) ==
    LET r == loadStoreMetadata(st, lyr)
    IN  IF r.err # "nil" THEN [store |-> r.store, err |-> r.err, data |-> NoValue]
        ELSE IF key \in DOMAIN r.md.UserData.kv
        THEN [store |-> r.store, err |-> "nil", data |-> r.md.UserData.kv[key]]
        ELSE [store |-> r.store, err |-> "user metadata not set", data |-> NoValue]

\* PutMetadata(key, data).  md.UserData[key] = data writes into the map of the
\* cached metadata when that has one, before the put of the layer is tried.
StorePutMetadata(st, lyr, key, data, ok) ==
    LET r == loadStoreMetadata(st, lyr)
        ud == MakeMap(MapPut(r.md.UserData.kv, key, data))
        md == [r.md EXCEPT !.UserData = ud]
        shared == IF r.md.UserData.nil \/ r.store.meta = <<>> THEN r.store
                  ELSE [r.store EXCEPT !.meta[1].UserData = ud]
    IN  IF r.err # "nil" THEN [store |-> r.store, layer |-> lyr, err |-> r.err]
        ELSE putStoreMetadata(shared, lyr, md, ok)

(* The Packer.  r is what the uploader goroutine has read from the pipe;   *)
(* up is "reading" while its layer.PutReader runs, "failed" once that has  *)
(* returned an error before the end of the pipe (rerr), "done" once its    *)
(* result was received by closeWriter.  nput counts the PutReader calls    *)
(* that returned nil; src, srcN and enc are the data, the size of the      *)
(* reads and the crypter of the last of them; ferr is the error of the     *)
(* first PutReader that failed on the Packer while it was not closed.      *)

NoPacker ==
    [key |-> "", r |-> <<>>, up |-> "nil", rerr |-> "nil",
     closed |-> FALSE, closeErr |-> "nil", nput |-> 0, src |-> <<>>, srcN |-> 0, enc |-> <<>>,
     ferr |-> "nil"]

ErrClosedPipe == "io: read/write on closed pipe"

\* The Packer that Pack(key) returns, its uploader started.
NewPacker(key) ==
    [key |-> key, r |-> <<>>, up |-> "reading", rerr |-> "nil",
     closed |-> FALSE, closeErr |-> "nil", nput |-> 0, src |-> <<>>, srcN |-> 0, enc |-> <<>>,
     ferr |-> "nil"]

\* Store.Pack(key)
Pack(st, key) ==
    IF isForbiddenKey(key)
    THEN [packer |-> NoPacker, err |-> "read/write to key name is forbidden"]
    ELSE IF ~isConnected(st)
    THEN [packer |-> NoPacker, err |-> "store not ready for reading/writing"]
    ELSE [packer |-> NewPacker(key), err |-> "nil"]

\* The result of the uploader once the write end is closed with err.  A pipe
\* closed with nil or io.EOF is at its end for its reader: the put of the layer
\* completes (ok: whether it succeeds).  One closed with another error gives
\* that error to the put, which returns it.
UploaderResult(pk, err, ok) ==
    IF pk.up = "failed" THEN pk.rerr
    ELSE IF err \notin {"nil", "EOF"} THEN err
    ELSE IF ok THEN "nil" ELSE "put failed"

\* A closeWriter without the test of p.closed.
closeWriterEveryTime(pk, lyr, err, ok) ==
    [packer |-> [pk EXCEPT !.closed = TRUE, !.closeErr = UploaderResult(pk, err, ok),
                           !.up = "done"],
     layer |-> IF UploaderResult(pk, err, ok) = "nil"
               THEN LayerPutReader(lyr, pk.key, pk.r) ELSE lyr]

\* closeWriter(err): close the write end with err and wait for the uploader's
\* result.
closeWriter(pk, lyr, err, ok) ==
    IF pk.closed THEN [packer |-> pk, layer |-> lyr]
    ELSE [packer |-> [pk EXCEPT !.closed = TRUE, !.closeErr = UploaderResult(pk, err, ok),
                                !.up = "done"],
          layer |-> IF UploaderResult(pk, err, ok) = "nil"
                    THEN LayerPutReader(lyr, pk.key, pk.r) ELSE lyr]

\* Packer.PutReader(r) for a source that delivers data in reads of n bytes and
\* then fails with srcErr unless that is "nil".  The first Read of the encrypt
\* stream returns the IV, which io.Copy writes to the pipe before it reads on.
PackerPutReader(st, pk, lyr, data, n, zerr, srcErr, iv, ok) ==
    LET envelope == EncryptReader(st.enc[1], IV(iv), CompressReader(Reads(data, n)))
        cw(err) == closeWriter(pk, lyr, err, ok)
        cwIV(err) == closeWriter([pk EXCEPT !.r = @ \o IV(iv)], lyr, err, ok)
    IN  IF zerr # "nil" THEN [packer |-> cw(zerr).packer, layer |-> cw(zerr).layer, err |-> zerr]
        ELSE IF pk.closed THEN [packer |-> pk, layer |-> lyr, err |-> ErrClosedPipe]
        ELSE IF pk.up = "failed"
        THEN [packer |-> cw(pk.rerr).packer, layer |-> cw(pk.rerr).layer, err |-> pk.rerr]
        ELSE IF srcErr # "nil"
        THEN [packer |-> cwIV(srcErr).packer, layer |-> cwIV(srcErr).layer, err |-> srcErr]
        ELSE [packer |-> [pk EXCEPT !.r = @ \o envelope, !.nput = @ + 1, !.src = data,
                                    !.srcN = n, !.enc = st.enc],
              layer |-> lyr, err |-> "nil"]

\* Packer.Close()
PackerClose(pk, lyr, ok) ==
    [packer |-> closeWriter(pk, lyr, "nil", ok).packer,
     layer |-> closeWriter(pk, lyr, "nil", ok).layer,
     err |-> closeWriter(pk, lyr, "nil", ok).packer.closeErr]

-----------------------------------------------------------------------------
(* File trees. *)

FileMode == 420     \* 0644
DirMode == 493      \* 0755
DirSize == 4096

FileNodes == {[kind |-> "reg", content |-> c, size |-> SizeOf(c), mode |-> FileMode, mtime |-> t] :
                 c \in 1..MaxContent, t \in 1..MaxMtime}

DirNode(t) == [kind |-> "dir", content |-> 0, size |-> DirSize, mode |-> DirMode, mtime |-> t]

EmptyTree == [p \in Paths |-> NoNode]

\* The trees that consist of the root directory and any of the files /r/a, /r/b.
FlatTrees == {[p \in Paths |->
                 CASE p = "/r" -> DirNode(t)
                   [] p = "/r/a" -> a
                   [] p = "/r/b" -> b
                   [] OTHER -> NoNode] :
                 t \in 1..MaxMtime, a \in FileNodes \cup {NoNode}, b \in FileNodes \cup {NoNode}}

Reg(c, t) == [kind |-> "reg", content |-> c, size |-> SizeOf(c), mode |-> FileMode, mtime |-> t]

\* The trees a backup run is started on: the two directories and any of a short
\* or long /r/a, a short or long /r/b and a long /r/d/c.
BackupTrees == {[p \in Paths |->
                   CASE p = "/r" -> DirNode(1)
                     [] p = "/r/d" -> DirNode(1)
                     [] p = "/r/a" -> a
                     [] p = "/r/b" -> b
                     [] p = "/r/d/c" -> c] :
                   a \in {NoNode, Reg(1, 1), Reg(MaxContent, 1)},
                   b \in {NoNode, Reg(1, 1), Reg(MaxContent, 1)},
                   c \in {NoNode, Reg(MaxContent, 1)}}

\* The tree of the earlier backup: short files /r/a and /r/d/c.
PriorTree == [p \in Paths |->
                CASE p = "/r" -> DirNode(1)
                  [] p = "/r/d" -> DirNode(1)
                  [] p = "/r/a" -> Reg(2, 1)
                  [] p = "/r/b" -> NoNode
                  [] p = "/r/d/c" -> Reg(2, 1)]

NoHist == [op |-> "none"]

-----------------------------------------------------------------------------
(* A run of ScanAndBackup in which nothing fails. *)

\* The key under which the store keeps the manifest of a set, and a blob.
ManifestObj(set) == <<"manifest", set>>
BlobObj(obj) == <<"blob", obj>>

\* Every bundle of the latest set packed, put and closed.
RECURSIVE StoreBundles(_, _, _, _)
StoreBundles(fs, lyr, mm, keys) ==
    IF keys = {} THEN lyr
    ELSE LET k == CHOOSE x \in keys : TRUE
             files == BundleFiles(mm.heap, LatestEntries(mm)[k])
         IN  StoreBundles(fs, [lyr EXCEPT !.blobs = MapPut(@, k, PackReader(fs, files)),
                                          !.partial = @ \ {BlobObj(k)}],
                          mm, keys \ {k})

\* bucket.Put("manifest/" + m.LastSet, data) completed.
PutManifest(lyr, set, data) ==
    [lyr EXCEPT !.manifests = MapPut(@, set, data), !.partial = @ \ {ManifestObj(set)}]

\* saveManifest without its last statement, the PutMetadata of the pointer.
saveManifestNoPointer(lyr, mm) == PutManifest(lyr, mm.LastSet, JSON(mm))

\* saveManifest(bucket, m), both puts succeeding.
saveManifest(lyr, mm) == putUserMetadata(PutManifest(lyr, mm.LastSet, JSON(mm)), mm.LastSet)

backupLatest(fs, lyr, mm) ==
    IF DOMAIN LatestEntries(mm) # {}
    THEN saveManifest(StoreBundles(fs, lyr, mm, DOMAIN LatestEntries(mm)), mm)
    ELSE lyr

ScanAndBackup(fs, lyr, now) ==
    LET p == PrepareBackup(fs, lyr, now)
    IN  IF Len(p.scan) = 0 THEN lyr
        ELSE IF p.run THEN backupLatest(fs, getStoreMetadata(lyr), p.m)
        ELSE getStoreMetadata(lyr)

-----------------------------------------------------------------------------
(* Restore.  A destination is a file tree over the same paths, relative to *)
(* the destination root, which exists.  The state of a restore in progress *)
(* is the destination tree, the set of paths it has created or written,    *)
(* the set of objects it has asked the store for, and the error.           *)

\* The file system creates the node at p: the directory that holds it is modified.
CreateNode(fs, p, node, now) ==
    [q \in Paths |->
        IF q = p THEN node
        ELSE IF q = Dir(p) /\ fs[q] # NoNode THEN [fs[q] EXCEPT !.mtime = now]
        ELSE fs[q]]

\* file.MakeDir(path): nothing if the path is a directory, else MkdirAll(path, 0755).
RECURSIVE MakeDirFS(_, _, _)
MakeDirFS(st, p, now) ==
    IF p \notin Paths THEN st
    ELSE IF st.fs[p] # NoNode
    THEN IF st.fs[p].kind = "dir" THEN st ELSE [st EXCEPT !.err = "err"]
    ELSE LET s1 == MakeDirFS(st, Dir(p), now)
         IN  IF s1.err # "nil" THEN s1
             ELSE [s1 EXCEPT !.fs = CreateNode(s1.fs, p, DirNode(now), now),
                             !.written = @ \cup {p}]

\* archive.RestoreDir(subdir, entry): Mkdir with the entry's mode, then Chtimes.
RestoreDir(st, entry, now) ==
    IF ~IsDir(entry) THEN [st EXCEPT !.err = "err"]
    ELSE IF st.fs[entry.path] # NoNode THEN [st EXCEPT !.err = "err"]
    ELSE IF Dir(entry.path) \in Paths /\ st.fs[Dir(entry.path)] = NoNode
    THEN [st EXCEPT !.err = "err"]
    ELSE [st EXCEPT
            !.fs = CreateNode(st.fs, entry.path,
                              [kind |-> "dir", content |-> 0, size |-> DirSize,
                               mode |-> entry.mode, mtime |-> entry.mtime], now),
            !.written = @ \cup {entry.path}]

\* The closure included of RestoreToPath.
includedAll(incl, path) == TRUE

included(incl, path) == \E p \in incl : HasPrefix(path, p)

\* The loop of RestoreToPath over m.Entries: directories are restored from the
\* entry (errors dropped), the other entries are collected by blob key.
RECURSIVE RestoreEntries(_, _, _, _, _, _, _)
RestoreEntries(st, mm, local, incl, i, targets, now) ==
    IF i > Len(mm.Entries) THEN [st |-> st, targets |-> targets]
    ELSE LET e == mm.heap[mm.Entries[i]]
             key == ObjKey(e.set, e.parts[1])
             sofar == IF key \in DOMAIN targets THEN targets[key] ELSE <<>>
         IN  IF ~HasIdentical(local, e.file) /\ included(incl, e.file.path)
             THEN IF IsDir(e.file)
                  THEN LET s1 == MakeDirFS(st, Dir(e.file.path), now)
                           s2 == RestoreDir([s1 EXCEPT !.err = "nil"], e.file, now)
                       IN  RestoreEntries([s2 EXCEPT !.err = "nil"], mm, local, incl,
                                          i + 1, targets, now)
                  ELSE RestoreEntries(st, mm, local, incl, i + 1,
                                      MapPut(targets, key, Append(sofar, e.file)), now)
             ELSE RestoreEntries(st, mm, local, incl, i + 1, targets, now)

NoFault == [stage |-> "none", key |-> <<>>, at |-> 0]

\* What io.Copy leaves of a file when the read fails: a prefix of the content.
Truncated(h, now) ==
    [kind |-> "reg", content |-> 0, size |-> 0, mode |-> h.mode, mtime |-> now]

\* archive.UnpackReader(root, tarball, only), from the i-th file of the tarball on.
\* The read of the tarball fails at the header of the file `at` (stage "header")
\* or in its content (stage "content"), which shows at the next header if the
\* content is skipped.
RECURSIVE UnpackReader(_, _, _, _, _, _)
UnpackReader(st, blob, only, fault, i, now) ==
    IF i > Len(blob) THEN st
    ELSE IF fault.stage = "header" /\ fault.at = i THEN [st EXCEPT !.err = "err"]
    ELSE LET h == blob[i]
             failsHere == fault.stage = "content" /\ fault.at = i
             s1 == MakeDirFS(st, Dir(h.path), now)
         IN  IF h.path \notin only
             THEN IF failsHere THEN [st EXCEPT !.err = "err"]
                  ELSE UnpackReader(st, blob, only, fault, i + 1, now)
             ELSE IF s1.err # "nil" THEN s1
             ELSE IF s1.fs[h.path] # NoNode
             THEN IF failsHere THEN [s1 EXCEPT !.err = "err"]
                  ELSE UnpackReader(s1, blob, only, fault, i + 1, now)
             ELSE IF failsHere
             THEN [s1 EXCEPT !.fs = CreateNode(s1.fs, h.path, Truncated(h, now), now),
                             !.written = @ \cup {h.path},
                             !.err = "err"]
             ELSE UnpackReader(
                     [s1 EXCEPT !.fs = CreateNode(s1.fs, h.path,
                                          [kind |-> h.kind, content |-> h.content,
                                           size |-> h.size, mode |-> h.mode,
                                           mtime |-> h.mtime], now),
                                !.written = @ \cup {h.path}],
                     blob, only, fault, i + 1, now)

\* The loop of RestoreToPath over targets, taken in the given order of the keys.
RECURSIVE RestoreTargets(_, _, _, _, _, _, _)
RestoreTargets(st, lyr, targets, order, fault, j, now) ==
    IF j > Len(order) \/ st.err # "nil" THEN st
    ELSE LET key == order[j]
             only == {targets[key][x].path : x \in 1..Len(targets[key])}
             s1 == [st EXCEPT !.fetched = @ \cup {key}]
             mine == IF fault.key = key THEN fault ELSE NoFault
         IN  IF mine.stage = "get" \/ key \notin DOMAIN lyr.blobs
             THEN [s1 EXCEPT !.err = "err"]
             ELSE RestoreTargets(UnpackReader(s1, lyr.blobs[key], only, mine, 1, now),
                                 lyr, targets, order, fault, j + 1, now)

\* RestoreToPath up to the loop over targets: the manifest, the scan and the
\* checksums of the destination, the directories.
RestorePlan(lyr, dst, incl, now) ==
    LET mm == ReadManifestData(getLatestManifest(lyr).data)
        localFiles == ChecksumFilesFS(dst, <<Scan(dst, {"/r"}, {})>>)[1]
        local == NewManifest(localFiles, dst, now)
    IN  RestoreEntries([fs |-> dst, written |-> {}, fetched |-> {}, err |-> "nil"],
                       mm, local, incl, 1, EmptyMap, now)

-----------------------------------------------------------------------------
(* Specification SpecCompare: Compare applied to the scan of a tree, with  *)
(* the manifest of an earlier backup of another state of the tree (written *)
(* by saveManifest, read back by ReadManifestData).                        *)

InitCompare ==
    /\ tree \in FlatTrees
    /\ \E tree0 \in FlatTrees :
          m = ReadManifestData(JSON(NewManifest(Scan(tree0, {"/r"}, {}), tree0, 1)))
    /\ ls = Scan(tree, {"/r"}, {})
    /\ changed = <<>>
    /\ pc = "compare"
    /\ dest = EmptyTree
    /\ layer = EmptyLayer
    /\ clock = 0
    /\ latest = EmptyMap
    /\ gs = EmptyMap
    /\ sem = 0
    /\ ret = "nil"
    /\ hist = NoHist
    /\ store = NewStore
    /\ packer = NoPacker
    /\ pipe = NoPipe

DoCompare ==
    /\ pc = "compare"
    /\ changed' = Compare(m, ls, tree)
    /\ pc' = "compared"
    /\ UNCHANGED <<tree, dest, layer, clock, m, ls, latest, gs, sem, ret, hist>>
    /\ UNCHANGED <<store, packer, pipe>>

NextCompare == DoCompare

SpecCompare == InitCompare /\ [][NextCompare]_vars

\* The set of paths of a list of files.
PathsOf(files) == {files[i].path : i \in 1..Len(files)}

\* The stored File of the manifest entry for a path.
StoredFile(mm, p) == mm.heap[mm.pathMap[p]].file

\* The checksum the checksum pass computes for a scanned file (none for a directory).
DiskSHA1(fs, f) == IF IsRegular(f) \/ IsSymlink(f) THEN SHA1(fs[f.path].content) ELSE 0

-----------------------------------------------------------------------------
(* Claims about Compare (SpecCompare). *)

\* A scanned file is new: the manifest has no entry for its path.
IsNew(mm, a) == ~Has(mm, a)

\* A scanned file's size differs from its entry's (a directory's size is not recorded).
SizeDiffers(mm, a) == Has(mm, a) /\ ~IsDir(a) /\ a.size # StoredFile(mm, a.path).size

\* A scanned file's content checksum differs from its entry's.
SHA1Differs(mm, fs, a) == Has(mm, a) /\ DiskSHA1(fs, a) # StoredFile(mm, a.path).sha1

MtimeDiffers(mm, a) == Has(mm, a) /\ a.mtime # StoredFile(mm, a.path).mtime

-----------------------------------------------------------------------------
(* Specification SpecBackup: one run of ScanAndBackup, statement by        *)
(* statement, on a store that is fresh or holds an earlier backup.  The    *)
(* main goroutine is at pc; gs[k] is the upload goroutine of the object    *)
(* key k; sem is the number of tokens in uploadSem.  Every put of the      *)
(* store can fail, and the process can crash at any point.  The            *)
(* statements of Remove run by different goroutines interleave, since      *)
(* nothing orders them.  hist holds the locals of the main goroutine (the  *)
(* counter of the drain loop, the data of saveManifest) and the record of  *)
(* the run: the pointer at its start, the error of getLatestManifest       *)
(* (fetch) and the outcome of the two puts of saveManifest.                *)

NoLoc == [oldPath |-> "", lastIndex |-> 0, lastEntry |-> Nil]

IdleGoroutine == [pc |-> "idle", files |-> <<>>, i |-> 0, ptr |-> Nil, loc |-> NoLoc, res |-> "none"]

\* The stores of a run: a fresh one, and one that holds the backup of PriorTree.
BackupStartLayers ==
    {EmptyLayer, [ScanAndBackup(PriorTree, EmptyLayer, 1) EXCEPT !.sMeta = EmptyLayer.sMeta]}

InitBackup ==
    /\ tree \in BackupTrees
    /\ layer \in BackupStartLayers
    /\ clock = 2
    /\ pc = "start"
    /\ m = EmptyManifest
    /\ ls = <<>>
    /\ changed = <<>>
    /\ latest = EmptyMap
    /\ gs = EmptyMap
    /\ sem = c_CONCURRENT_UPLOADS
    /\ ret = "nil"
    /\ dest = EmptyTree
    /\ hist = [op |-> "backup", ptr0 |-> layer.latestPtr, drained |-> 0,
               data |-> JSON(EmptyManifest), mput |-> "none", pput |-> "none",
               fetch |-> "none"]
    /\ store = NewStore
    /\ packer = NoPacker
    /\ pipe = NoPipe

\* ScanAndBackup up to the loop of backupLatest: scan, fetch the latest manifest,
\* Compare and Update (or NewManifest), LatestEntries.
StartRun ==
    /\ pc = "start"
    /\ LET p == PrepareBackup(tree, layer, clock)
           lat == LatestEntries(p.m)
       IN  /\ ls' = p.scan
           /\ changed' = p.changed
           /\ m' = p.m
           /\ layer' = IF Len(p.scan) = 0 THEN layer ELSE getStoreMetadata(layer)
           /\ latest' = IF p.run THEN lat ELSE EmptyMap
           /\ gs' = IF p.run THEN [k \in DOMAIN lat |-> IdleGoroutine] ELSE EmptyMap
           /\ pc' = IF p.run /\ DOMAIN lat # {} THEN "loop" ELSE "done"
           /\ hist' = [hist EXCEPT !.fetch = IF Len(p.scan) = 0 THEN "none"
                                             ELSE getLatestManifest(layer).err]
    /\ UNCHANGED <<tree, dest, clock, sem, ret>>
    /\ UNCHANGED <<store, packer, pipe>>

\* getLatestManifest fails with an error other than not-found: ScanAndBackup returns it.
StartRunFails ==
    /\ pc = "start"
    /\ Len(Scan(tree, {"/r"}, {})) > 0
    /\ ls' = Scan(tree, {"/r"}, {})
    /\ ret' = "err"
    /\ pc' = "done"
    /\ hist' = [hist EXCEPT !.fetch = "err"]
    /\ UNCHANGED <<tree, dest, layer, clock, m, changed, latest, gs, sem>>
    /\ UNCHANGED <<store, packer, pipe>>

\* A loop that starts the goroutine of a bundle without taking a token.
SpawnUploadWithoutToken ==
    /\ pc = "loop"
    /\ \E k \in DOMAIN gs :
          /\ gs[k].pc = "idle"
          /\ gs' = [gs EXCEPT ![k].pc = "put", ![k].files = BundleFiles(m.heap, latest[k])]
          /\ pc' = IF \A j \in DOMAIN gs \ {k} : gs[j].pc # "idle" THEN "drain" ELSE "loop"
    /\ sem' = sem
    /\ UNCHANGED <<tree, dest, layer, clock, m, ls, changed, latest, ret, hist>>
    /\ UNCHANGED <<store, packer, pipe>>

\* An iteration of the loop over latest: collect the files, take a token, start
\* the goroutine.  The map is ranged over in any order.
SpawnUpload ==
    /\ pc = "loop"
    /\ sem > 0
    /\ \E k \in DOMAIN gs :
          /\ gs[k].pc = "idle"
          /\ gs' = [gs EXCEPT ![k].pc = "put", ![k].files = BundleFiles(m.heap, latest[k])]
          /\ pc' = IF \A j \in DOMAIN gs \ {k} : gs[j].pc # "idle" THEN "drain" ELSE "loop"
    /\ sem' = sem - 1
    /\ UNCHANGED <<tree, dest, layer, clock, m, ls, changed, latest, ret, hist>>
    /\ UNCHANGED <<store, packer, pipe>>

\* The goroutines run while the main goroutine is in backupLatest.
GoroutinesRun == pc \in {"loop", "drain", "save", "putManifest", "putPointer"}

\* store.Pack("blob/" + key) on the connected store, then packer.PutReader(tarball).
PutReaderOK ==
    /\ \E k \in DOMAIN gs :
           /\ GoroutinesRun
           /\ gs[k].pc = "put"
           /\ gs' = [gs EXCEPT ![k].pc = "close"]
           /\ UNCHANGED <<tree, dest, layer, clock, m, ls, changed, latest, sem, pc, ret, hist>>
    /\ UNCHANGED <<store, packer, pipe>>

PutReaderFails ==
    /\ \E k \in DOMAIN gs :
           /\ GoroutinesRun
           /\ gs[k].pc = "put"
           /\ gs' = [gs EXCEPT ![k].pc = "drop", ![k].res = "failed"]
           /\ layer' = [layer EXCEPT !.partial = @ \cup {BlobObj(k)}]
           /\ UNCHANGED <<tree, dest, clock, m, ls, changed, latest, sem, pc, ret, hist>>
    /\ UNCHANGED <<store, packer, pipe>>

\* packer.Close(): the upload is complete when it returns nil.
CloseOK ==
    /\ \E k \in DOMAIN gs :
           /\ GoroutinesRun
           /\ gs[k].pc = "close"
           /\ gs' = [gs EXCEPT ![k].pc = "release", ![k].res = "ok"]
           /\ layer' = [layer EXCEPT !.blobs = MapPut(@, k, PackReader(tree, gs[k].files)),
                                     !.partial = @ \ {BlobObj(k)}]
           /\ UNCHANGED <<tree, dest, clock, m, ls, changed, latest, sem, pc, ret, hist>>
    /\ UNCHANGED <<store, packer, pipe>>

CloseFails ==
    /\ \E k \in DOMAIN gs :
           /\ GoroutinesRun
           /\ gs[k].pc = "close"
           /\ gs' = [gs EXCEPT ![k].pc = "drop", ![k].res = "failed"]
           /\ layer' = [layer EXCEPT !.partial = @ \cup {BlobObj(k)}]
           /\ UNCHANGED <<tree, dest, clock, m, ls, changed, latest, sem, pc, ret, hist>>
    /\ UNCHANGED <<store, packer, pipe>>

\* dropFromManifest, before its loop.
DropFromManifest ==
    /\ \E k \in DOMAIN gs :
           /\ GoroutinesRun
           /\ gs[k].pc = "drop"
           /\ gs' = [gs EXCEPT ![k].pc = "remove", ![k].i = 1]
           /\ UNCHANGED <<tree, dest, layer, clock, m, ls, changed, latest, sem, pc, ret, hist>>
    /\ UNCHANGED <<store, packer, pipe>>

\* The goroutine after m.Remove(files[i]) has returned.
AfterRemove(g) ==
    IF g.i < Len(g.files)
    THEN [g EXCEPT !.pc = "remove", !.i = g.i + 1, !.ptr = Nil, !.loc = NoLoc]
    ELSE [g EXCEPT !.pc = "release", !.ptr = Nil, !.loc = NoLoc]

\* Remove: ptr, found := m.pathMap[f.Path()].
RemoveLookup ==
    /\ \E k \in DOMAIN gs :
           /\ GoroutinesRun
           /\ gs[k].pc = "remove"
           /\ LET f == gs[k].files[gs[k].i]
              IN  gs' = IF f.path \in DOMAIN m.pathMap
                        THEN [gs EXCEPT ![k].pc = "removeEntry", ![k].ptr = m.pathMap[f.path]]
                        ELSE [gs EXCEPT ![k] = AfterRemove(gs[k])]
           /\ UNCHANGED <<tree, dest, layer, clock, m, ls, changed, latest, sem, pc, ret, hist>>
    /\ UNCHANGED <<store, packer, pipe>>

\* The process is gone: its memory with it, the puts in flight left incomplete.
Halt(how) ==
    /\ pc' = "crashed"
    /\ ret' = how
    /\ layer' = [layer EXCEPT
          !.sMeta = EmptyLayer.sMeta,
          !.partial = @ \cup {BlobObj(k) : k \in {x \in DOMAIN gs : gs[x].pc \in {"put", "close"}}}
                        \cup (IF pc = "putManifest" THEN {ManifestObj(m.LastSet)} ELSE {})]
    /\ m' = EmptyManifest
    /\ ls' = <<>>
    /\ changed' = <<>>
    /\ latest' = EmptyMap
    /\ gs' = EmptyMap
    /\ sem' = c_CONCURRENT_UPLOADS
    /\ UNCHANGED <<tree, dest, clock, hist>>

\* removeEntry: the reads of oldPath, lastIndex and lastEntry.
RemoveEntryRead ==
    /\ \E k \in DOMAIN gs :
           /\ GoroutinesRun
           /\ gs[k].pc = "removeEntry"
           /\ IF Len(m.Entries) = 0
              THEN Halt("panic")
              ELSE /\ gs' = [gs EXCEPT ![k].pc = "removeEntryWrite",
                                       ![k].loc = removeEntryRead(m, gs[k].ptr)]
                   /\ UNCHANGED <<tree, dest, layer, clock, m, ls, changed, latest, sem, pc, ret, hist>>
    /\ UNCHANGED <<store, packer, pipe>>

\* removeEntry: the writes to *ptr, pathMap and Entries.
RemoveEntryWrite ==
    /\ \E k \in DOMAIN gs :
           /\ GoroutinesRun
           /\ gs[k].pc = "removeEntryWrite"
           /\ IF removeEntryPanics(m, gs[k].loc)
              THEN Halt("panic")
              ELSE /\ m' = removeEntryWrite(m, gs[k].ptr, gs[k].loc)
                   /\ gs' = [gs EXCEPT ![k] = AfterRemove(gs[k])]
                   /\ UNCHANGED <<tree, dest, layer, clock, ls, changed, latest, sem, pc, ret, hist>>
    /\ UNCHANGED <<store, packer, pipe>>

\* uploadSem <- true, at the end of the goroutine.
Release ==
    /\ \E k \in DOMAIN gs :
           /\ GoroutinesRun
           /\ gs[k].pc = "release"
           /\ gs' = [gs EXCEPT ![k].pc = "done"]
           /\ sem' = sem + 1
           /\ UNCHANGED <<tree, dest, layer, clock, m, ls, changed, latest, pc, ret, hist>>
    /\ UNCHANGED <<store, packer, pipe>>

\* The loop that takes cap(uploadSem) tokens, and the loop that puts them back:
\* without waiting for the last token.
DrainTokenNoWait ==
    /\ pc = "drain"
    /\ sem > 0
    /\ sem' = sem - 1
    /\ pc' = "save"
    /\ UNCHANGED <<tree, dest, layer, clock, m, ls, changed, latest, gs, ret, hist>>
    /\ UNCHANGED <<store, packer, pipe>>

\* The loop that takes cap(uploadSem) tokens, and the loop that puts them back.
DrainToken ==
    /\ pc = "drain"
    /\ sem > 0
    /\ IF hist.drained + 1 = c_CONCURRENT_UPLOADS
       THEN /\ sem' = c_CONCURRENT_UPLOADS
            /\ hist' = [hist EXCEPT !.drained = 0]
            /\ pc' = "save"
       ELSE /\ sem' = sem - 1
            /\ hist' = [hist EXCEPT !.drained = @ + 1]
            /\ pc' = "drain"
    /\ UNCHANGED <<tree, dest, layer, clock, m, ls, changed, latest, gs, ret>>
    /\ UNCHANGED <<store, packer, pipe>>

\* saveManifest: data, err := m.JSON(), and the local file written.
SaveJSON ==
    /\ pc = "save"
    /\ hist' = [hist EXCEPT !.data = JSON(m)]
    /\ pc' = "putManifest"
    /\ UNCHANGED <<tree, dest, layer, clock, m, ls, changed, latest, gs, sem, ret>>
    /\ UNCHANGED <<store, packer, pipe>>

\* saveManifest: file.WriteFile of the local file fails.
SaveWriteFileFails ==
    /\ pc = "save"
    /\ hist' = [hist EXCEPT !.data = JSON(m)]
    /\ ret' = "err"
    /\ pc' = "done"
    /\ UNCHANGED <<tree, dest, layer, clock, m, ls, changed, latest, gs, sem>>
    /\ UNCHANGED <<store, packer, pipe>>

\* saveManifest: bucket.Put("manifest/" + m.LastSet, data) returns nil.
PutManifestOK ==
    /\ pc = "putManifest"
    /\ layer' = PutManifest(layer, m.LastSet, hist.data)
    /\ hist' = [hist EXCEPT !.mput = "ok"]
    /\ pc' = "putPointer"
    /\ UNCHANGED <<tree, dest, clock, m, ls, changed, latest, gs, sem, ret>>
    /\ UNCHANGED <<store, packer, pipe>>

\* saveManifest: the put of the manifest fails, and saveManifest goes on.
PutManifestFailsIgnored ==
    /\ pc = "putManifest"
    /\ layer' = [layer EXCEPT !.partial = @ \cup {ManifestObj(m.LastSet)}]
    /\ hist' = [hist EXCEPT !.mput = "failed"]
    /\ pc' = "putPointer"
    /\ UNCHANGED <<tree, dest, clock, m, ls, changed, latest, gs, sem, ret>>
    /\ UNCHANGED <<store, packer, pipe>>

\* saveManifest: the put of the manifest fails, and the error is returned.
PutManifestFails ==
    /\ pc = "putManifest"
    /\ layer' = [layer EXCEPT !.partial = @ \cup {ManifestObj(m.LastSet)}]
    /\ hist' = [hist EXCEPT !.mput = "failed"]
    /\ ret' = "err"
    /\ pc' = "done"
    /\ UNCHANGED <<tree, dest, clock, m, ls, changed, latest, gs, sem>>
    /\ UNCHANGED <<store, packer, pipe>>

\* saveManifest: bucket.PutMetadata("manifest/latest", m.LastSet) returns nil.
PutPointerOK ==
    /\ pc = "putPointer"
    /\ layer' = putUserMetadata(layer, m.LastSet)
    /\ hist' = [hist EXCEPT !.pput = "ok"]
    /\ ret' = "nil"
    /\ pc' = "done"
    /\ UNCHANGED <<tree, dest, clock, m, ls, changed, latest, gs, sem>>
    /\ UNCHANGED <<store, packer, pipe>>

\* saveManifest: PutMetadata fails, and the error is returned.
PutPointerFails ==
    /\ pc = "putPointer"
    /\ layer' = putUserMetadataFails(layer, m.LastSet)
    /\ hist' = [hist EXCEPT !.pput = "failed"]
    /\ ret' = "err"
    /\ pc' = "done"
    /\ UNCHANGED <<tree, dest, clock, m, ls, changed, latest, gs, sem>>
    /\ UNCHANGED <<store, packer, pipe>>

\* The process is killed.
Crash ==
    /\ pc \notin {"done", "crashed"}
    /\ Halt("killed")
    /\ UNCHANGED <<store, packer, pipe>>

NextBackup ==
    \/ StartRun
    \/ StartRunFails
    \/ SpawnUpload
    \/ PutReaderOK
    \/ PutReaderFails
    \/ CloseOK
    \/ CloseFails
    \/ DropFromManifest
    \/ RemoveLookup
    \/ RemoveEntryRead
    \/ RemoveEntryWrite
    \/ Release
    \/ DrainToken
    \/ SaveJSON
    \/ SaveWriteFileFails
    \/ PutManifestOK
    \/ PutManifestFails
    \/ PutPointerOK
    \/ PutPointerFails
    \/ Crash

SpecBackup == InitBackup /\ [][NextBackup]_vars

-----------------------------------------------------------------------------
(* Claims about a backup run (SpecBackup). *)

\* The entries of a manifest text that have the path p.
DataEntries(data, p) == {i \in 1..Len(data.entries) : data.entries[i].path = p}

\* The bundle of object key k is kept in the text: each of its files has an entry
\* of the run's set whose part is k.
BundleKept(data, k) ==
    \A i \in 1..Len(gs[k].files) :
        \E j \in DataEntries(data, gs[k].files[i].path) :
            data.entries[j].set = k[1] /\ data.entries[j].parts = <<k[2]>>

\* The bundle of object key k is dropped from the text: none of its files has an entry.
BundleDropped(data, k) ==
    \A i \in 1..Len(gs[k].files) : DataEntries(data, gs[k].files[i].path) = {}

\* C1 as stated: when the manifest is written, for every object key of the run
\* either its upload succeeded and the entries of its bundle remain, or its upload
\* failed and every file of its bundle has been removed; never a subset.
\* Violated: the Removes of two failed bundles interleave.
C1_Original ==
    pc = "putManifest" =>
        \A k \in DOMAIN gs :
            \/ gs[k].res = "ok" /\ BundleKept(hist.data, k)
            \/ gs[k].res = "failed" /\ BundleDropped(hist.data, k)

\* saveManifest has been entered, or one of its puts has been made.
SaveStarted == pc \in {"save", "putManifest", "putPointer"} \/ hist.mput # "none"

\* The write of the pointer has been started.
PointerPutStarted == pc = "putPointer" \/ hist.pput # "none"

\* The manifest object of a set is completely written.
ManifestComplete(set) == set \in DOMAIN layer.manifests /\ ManifestObj(set) \notin layer.partial

\* C2: in a run of backupLatest, the manifest is read and its put started only
\* after every upload goroutine of the run has finished (the blob of every
\* successful upload is then complete in the store), and the write of the pointer
\* is started only after the put of that manifest has completed.
C2_UploadsThenManifestThenPointer ==
    /\ SaveStarted =>
          \A k \in DOMAIN gs :
              /\ gs[k].pc = "done"
              /\ gs[k].res = "ok" => k \in DOMAIN layer.blobs /\ BlobObj(k) \notin layer.partial
    /\ PointerPutStarted =>
          /\ hist.mput = "ok"
          /\ ManifestComplete(hist.data.lastSet)
          /\ layer.manifests[hist.data.lastSet] = hist.data

\* Witness of C2: the pointer is about to be written in a run in which one upload
\* succeeded and another failed.
C2_Witness ==
    /\ pc = "putPointer"
    /\ \E j, k \in DOMAIN gs : gs[j].res = "ok" /\ gs[k].res = "failed"

-----------------------------------------------------------------------------
(* Specification SpecCycle: edits of the source tree, runs of              *)
(* ScanAndBackup on a store whose puts succeed, and runs of RestoreToPath  *)
(* into one destination, with or without a read fault.  Each run is one    *)
(* step.  After a run m, ls and changed are the manifest the run read, its *)
(* scan and what Compare returned; hist records the run (what it put,      *)
(* fetched and wrote) and the operation before it.                         *)

\* The number of operations and of edits in a behaviour.
MaxOps == 4
MaxEdits == 1

\* A directory that only its owner may enter (mode 0700).
PrivateDirNode(t) == [kind |-> "dir", content |-> 0, size |-> DirSize, mode |-> 448, mtime |-> t]

\* The trees at the start: /r with nothing, a short or a long /r/a, and with or
\* without the private directory /r/d, empty or with a short /r/d/c.
CycleTrees == {[p \in Paths |->
                  CASE p = "/r" -> DirNode(1)
                    [] p = "/r/a" -> a
                    [] p = "/r/b" -> NoNode
                    [] p = "/r/d" -> d[1]
                    [] p = "/r/d/c" -> d[2]] :
                  a \in {NoNode, Reg(1, 1), Reg(MaxContent, 2)},
                  d \in {<<NoNode, NoNode>>, <<PrivateDirNode(1), NoNode>>,
                         <<PrivateDirNode(1), Reg(1, 1)>>}}

\* The include lists of the restores.
Includes == {{"/r"}, {"/r/a"}, {"/r/d/c"}}

NoOp == [op |-> "none", incl |-> {}, ret |-> "nil"]

StartHist ==
    [op |-> "none", n |-> 0, edits |-> 0, incl |-> {}, fault |-> NoFault,
     fetched |-> {}, written |-> {}, blobPuts |-> {}, manifestPuts |-> {},
     ptr0 |-> Nil, destEmpty |-> TRUE, prev |-> NoOp]

\* The record of the operation that is now the previous one.
Prev == [op |-> hist.op, incl |-> hist.incl, ret |-> ret]

InitCycle ==
    /\ tree \in CycleTrees
    /\ dest = EmptyTree
    /\ layer = EmptyLayer
    /\ clock = 3
    /\ m = EmptyManifest
    /\ ls = <<>>
    /\ changed = <<>>
    /\ latest = EmptyMap
    /\ gs = EmptyMap
    /\ sem = c_CONCURRENT_UPLOADS
    /\ pc = "idle"
    /\ ret = "nil"
    /\ hist = StartHist
    /\ store = NewStore
    /\ packer = NoPacker
    /\ pipe = NoPipe

\* Something rewrites a file of the tree: other content, modified now.
Modify ==
    /\ hist.n < MaxOps /\ hist.edits < MaxEdits
    /\ \E p \in Paths :
          /\ tree[p] # NoNode /\ tree[p].kind = "reg"
          /\ tree' = [tree EXCEPT ![p] = Reg((tree[p].content % MaxContent) + 1, clock)]
    /\ clock' = clock + 1
    /\ hist' = [StartHist EXCEPT !.op = "edit", !.n = hist.n + 1, !.edits = hist.edits + 1,
                                 !.prev = Prev]
    /\ ret' = "nil"
    /\ UNCHANGED <<dest, layer, m, ls, changed, latest, gs, sem, pc>>
    /\ UNCHANGED <<store, packer, pipe>>

\* Something touches a file or a directory of the tree: modified now, nothing else.
Touch ==
    /\ hist.n < MaxOps /\ hist.edits < MaxEdits
    /\ \E p \in Paths :
          /\ tree[p] # NoNode
          /\ tree' = [tree EXCEPT ![p].mtime = clock]
    /\ clock' = clock + 1
    /\ hist' = [StartHist EXCEPT !.op = "edit", !.n = hist.n + 1, !.edits = hist.edits + 1,
                                 !.prev = Prev]
    /\ ret' = "nil"
    /\ UNCHANGED <<dest, layer, m, ls, changed, latest, gs, sem, pc>>
    /\ UNCHANGED <<store, packer, pipe>>

\* ScanAndBackup(bucket, scanner) on the tree, the store's puts succeeding.
Backup ==
    /\ hist.n < MaxOps
    /\ LET p == PrepareBackup(tree, layer, clock)
           after == ScanAndBackup(tree, layer, clock)
       IN  /\ layer' = after
           /\ m' = p.prior
           /\ ls' = p.scan
           /\ changed' = p.changed
           /\ hist' = [StartHist EXCEPT
                 !.op = "backup", !.n = hist.n + 1, !.edits = hist.edits,
                 !.blobPuts = DOMAIN after.blobs \ DOMAIN layer.blobs,
                 !.manifestPuts = DOMAIN after.manifests \ DOMAIN layer.manifests,
                 !.ptr0 = layer.latestPtr,
                 !.destEmpty = (dest = EmptyTree),
                 !.prev = Prev]
    /\ clock' = clock + 1
    /\ ret' = "nil"
    /\ UNCHANGED <<tree, dest, latest, gs, sem, pc>>
    /\ UNCHANGED <<store, packer, pipe>>

\* The orders in which a range over the map targets can take its keys.
Orders(keys) ==
    {o \in [1..Cardinality(keys) -> keys] : \A i, j \in 1..Cardinality(keys) : i # j => o[i] # o[j]}

\* The read faults that can hit a restore that has these targets.
Faults(lyr, targets) ==
    {[stage |-> "get", key |-> k, at |-> 0] : k \in DOMAIN targets}
    \cup UNION {{[stage |-> sg, key |-> k, at |-> i] :
                    sg \in {"header", "content"}, i \in 1..Len(lyr.blobs[k])} :
                k \in DOMAIN targets \cap DOMAIN lyr.blobs}

\* The effect of a RestoreToPath whose loop over targets gave the final state st.
Restored(incl, fault, st) ==
    /\ dest' = st.fs
    /\ ret' = st.err
    /\ layer' = getStoreMetadata(layer)
    /\ hist' = [StartHist EXCEPT
          !.op = "restore", !.n = hist.n + 1, !.edits = hist.edits,
          !.incl = incl, !.fault = fault,
          !.fetched = st.fetched, !.written = st.written,
          !.ptr0 = layer.latestPtr,
          !.destEmpty = (dest = EmptyTree),
          !.prev = Prev]
    /\ UNCHANGED <<tree, clock, m, ls, changed, latest, gs, sem, pc>>

\* RestoreToPath(bucket, root, incl) with no manifest in the store: the
\* not-found error is returned.
RestoreNothing ==
    /\ hist.n < MaxOps
    /\ getLatestManifest(layer).err # "nil"
    /\ \E incl \in Includes :
          Restored(incl, NoFault,
                   [fs |-> dest, written |-> {}, fetched |-> {}, err |-> "notfound"])
    /\ UNCHANGED <<store, packer, pipe>>

\* RestoreToPath(bucket, root, incl), every read succeeding.
Restore ==
    /\ hist.n < MaxOps
    /\ getLatestManifest(layer).err = "nil"
    /\ \E incl \in Includes :
          LET plan == RestorePlan(layer, dest, incl, clock)
          IN  \E order \in Orders(DOMAIN plan.targets) :
                 Restored(incl, NoFault,
                          RestoreTargets(plan.st, layer, plan.targets, order, NoFault, 1, clock))
    /\ UNCHANGED <<store, packer, pipe>>

\* RestoreToPath(bucket, root, incl), a read of one of its objects failing.
RestoreWithFault ==
    /\ hist.n < MaxOps
    /\ getLatestManifest(layer).err = "nil"
    /\ \E incl \in Includes :
          LET plan == RestorePlan(layer, dest, incl, clock)
          IN  \E order \in Orders(DOMAIN plan.targets), fault \in Faults(layer, plan.targets) :
                 Restored(incl, fault,
                          RestoreTargets(plan.st, layer, plan.targets, order, fault, 1, clock))
    /\ UNCHANGED <<store, packer, pipe>>

NextCycle ==
    \/ Modify
    \/ Touch
    \/ Backup
    \/ RestoreNothing
    \/ Restore
    \/ RestoreWithFault

SpecCycle == InitCycle /\ [][NextCycle]_vars

-----------------------------------------------------------------------------
(* Claims about backup and restore runs (SpecCycle). *)

\* The destination has what the tree has at p: both nothing, or nodes of the same
\* kind, mode, size and content.
SameAt(p) ==
    IF tree[p] = NoNode THEN dest[p] = NoNode
    ELSE /\ dest[p] # NoNode
         /\ dest[p].kind = tree[p].kind
         /\ dest[p].mode = tree[p].mode
         /\ dest[p].size = tree[p].size
         /\ dest[p].content = tree[p].content

\* The run just made is a fault-free restore of everything into a destination that
\* was empty, right after a backup of the tree, which was never edited.
RoundTrip ==
    /\ hist.op = "restore"
    /\ hist.prev.op = "backup"
    /\ hist.edits = 0
    /\ hist.destEmpty
    /\ hist.fault = NoFault
    /\ hist.incl = {"/r"}

\* C4 as stated: after ScanAndBackup of a tree and RestoreToPath of the tree root
\* into an empty destination, on a fault-free store, the destination has exactly
\* the paths that were backed up, each with the mode, size and content of the
\* original.  Violated: a tree of directories only is never recorded.
C4_Original == RoundTrip => ret = "nil" /\ \A p \in Paths : SameAt(p)

\* C5: a ScanAndBackup run right after a backup of the same tree puts no blob,
\* writes no manifest and leaves the pointer as it was.
C5_SecondBackupIsNoOp ==
    hist.op = "backup" /\ hist.prev.op = "backup" =>
        /\ hist.blobPuts = {}
        /\ hist.manifestPuts = {}
        /\ layer.latestPtr = hist.ptr0
        /\ ret = "nil"

\* Witness of C5: a second backup in a row of a tree with a file, on a store that
\* holds the manifest and the blob of the first.
C5_Witness ==
    /\ hist.op = "backup" /\ hist.prev.op = "backup"
    /\ hist.ptr0 # Nil
    /\ layer.latestPtr = hist.ptr0
    /\ DOMAIN layer.blobs # {}
    /\ \E i \in 1..Len(ls) : ~IsDir(ls[i]) /\ Has(m, ls[i])

\* A scanned file has an entry and differs from it in modification time only.
TouchedOnly(mm, fs, a) ==
    Has(mm, a) /\ MtimeDiffers(mm, a) /\ ~SizeDiffers(mm, a) /\ ~SHA1Differs(mm, fs, a)

\* C6: Compare does not return a scanned file that differs from its entry in
\* modification time only, and a backup run in which every scanned file has an
\* entry with its size and checksum puts no blob.
C6_TouchIsNotAChange ==
    hist.op = "backup" =>
        /\ \A i \in 1..Len(ls) :
              TouchedOnly(m, tree, ls[i]) => ls[i].path \notin PathsOf(changed)
        /\ (\A i \in 1..Len(ls) :
               Has(m, ls[i]) /\ ~SizeDiffers(m, ls[i]) /\ ~SHA1Differs(m, tree, ls[i]))
           => hist.blobPuts = {}

\* Witness of C6: a backup run that found a touched regular file and put nothing.
C6_Witness ==
    /\ hist.op = "backup"
    /\ hist.ptr0 # Nil
    /\ \E i \in 1..Len(ls) : ~IsDir(ls[i]) /\ TouchedOnly(m, tree, ls[i])
    /\ \A i \in 1..Len(ls) :
          Has(m, ls[i]) /\ ~SizeDiffers(m, ls[i]) /\ ~SHA1Differs(m, tree, ls[i])
    /\ hist.blobPuts = {}
    /\ changed = <<>>

\* The path starts with one of the include prefixes of the restore just made.
Selected(p) == \E q \in hist.incl : HasPrefix(p, q)

\* The manifest a restore reads from the store.
RestoreManifest == ReadManifestData(getLatestManifest(layer).data)

\* The entries of that manifest that are not directories and match an include prefix.
IncludedFiles ==
    {e \in {RestoreManifest.heap[RestoreManifest.Entries[i]] : i \in 1..Len(RestoreManifest.Entries)} :
        ~IsDir(e.file) /\ Selected(e.file.path)}

\* C8 as stated: a RestoreToPath that follows a successful RestoreToPath with the
\* same manifest, destination and include prefixes fetches no blob and writes no
\* file.  Violated: the first of the two skipped a file that an interrupted
\* attempt had left truncated, and the second fetches its blob again.
C8_Original ==
    hist.op = "restore" /\ hist.prev = [op |-> "restore", incl |-> hist.incl, ret |-> "nil"]
        => hist.fetched = {} /\ hist.written = {}

\* C9 as stated: RestoreToPath creates or writes a destination entry only for
\* manifest entries whose path starts with an include prefix.  Violated: the
\* directories above an included file are created too.
C9_Original ==
    hist.op = "restore" /\ ret # "notfound" =>
        /\ \A p \in hist.written : Selected(p)
        /\ hist.fetched \subseteq {ObjKey(e.set, e.parts[1]) : e \in IncludedFiles}

\* p is a directory above q.
Above(p, q) == p # q /\ HasPrefix(q, p) /\ p \in DirPaths

\* C9 (amended): what RestoreToPath creates or writes in the destination is at the
\* path of a manifest entry that starts with an include prefix, or is a directory
\* above such an entry, created with mode 0755 whatever the manifest records for
\* it; nothing else is written, and only blobs of matching entries are fetched.
C9_SelectiveRestore ==
    hist.op = "restore" /\ ret # "notfound" =>
        /\ \A p \in hist.written :
              \/ Selected(p) /\ p \in DOMAIN RestoreManifest.pathMap
              \/ /\ \E q \in DOMAIN RestoreManifest.pathMap : Selected(q) /\ Above(p, q)
                 /\ dest[p].kind = "dir"
                 /\ dest[p].mode = DirMode
        /\ hist.fetched \subseteq {ObjKey(e.set, e.parts[1]) : e \in IncludedFiles}

\* Witness of C9: a restore of /r/d/c alone has fetched the blob that also holds
\* /r/a, has written /r/d/c, and has created /r and /r/d as 0755 directories where
\* the manifest records another mode for /r/d; /r/a is not written.
C9_Witness ==
    /\ hist.op = "restore" /\ ret = "nil"
    /\ hist.incl = {"/r/d/c"}
    /\ hist.written = {"/r", "/r/d", "/r/d/c"}
    /\ dest["/r/d"].mode = DirMode
    /\ "/r/d" \in DOMAIN RestoreManifest.pathMap
    /\ StoredFile(RestoreManifest, "/r/d").mode # DirMode
    /\ \E k \in hist.fetched : \E i \in 1..Len(layer.blobs[k]) : layer.blobs[k][i].path = "/r/a"
    /\ dest["/r/a"] = NoNode

\* Every included file of the manifest is in the destination with its content.
AllIncludedRestored ==
    \A e \in IncludedFiles :
        /\ dest[e.file.path] # NoNode
        /\ dest[e.file.path].size = e.file.size
        /\ SHA1(dest[e.file.path].content) = e.file.sha1

\* C10 as stated: a restore that meets a read fault returns the error; repeated
\* once the fault is gone, it returns success with every included file restored.
\* Violated: the file that was being written when the read failed stays truncated.
C10_Original ==
    hist.op = "restore" =>
        /\ hist.fault # NoFault => ret = "err"
        /\ hist.fault = NoFault /\ hist.prev = [op |-> "restore", incl |-> hist.incl, ret |-> "err"]
              => ret = "nil" /\ AllIncludedRestored

-----------------------------------------------------------------------------
(* Specification SpecManifest: a sequence of NewManifest, Update and       *)
(* Remove calls on one Manifest, made by one goroutine.  The files of a    *)
(* call are a scan of the file system as it is at the call.  clock is the  *)
(* last reading of time.Now(): the wall clock, whose next reading can be   *)
(* the same instant (the clock's resolution) or a later one.  hist holds   *)
(* the call just made, its files and the manifest before it.               *)

MaxCalls == 3

\* The file systems the calls scan: the root directory and any of a short /r/a
\* in two versions and a short /r/b in two versions.
ManifestTrees == {[p \in Paths |->
                     CASE p = "/r" -> DirNode(1)
                       [] p = "/r/a" -> a
                       [] p = "/r/b" -> b
                       [] OTHER -> NoNode] :
                     a \in {NoNode, Reg(1, 1), Reg(2, 2)},
                     b \in {NoNode, Reg(1, 1), Reg(2, 2)}}

\* The include lists of the scans.
ManifestIncludes == {{"/r"}, {"/r/a"}, {"/r/b"}}

InitManifest ==
    /\ tree = EmptyTree
    /\ m = EmptyManifest
    /\ clock = 1
    /\ pc = "new"
    /\ ls = <<>>
    /\ hist = [op |-> "none", n |-> 0, before |-> EmptyManifest, removed |-> ""]
    /\ changed = <<>>
    /\ dest = EmptyTree
    /\ layer = EmptyLayer
    /\ latest = EmptyMap
    /\ gs = EmptyMap
    /\ sem = 0
    /\ ret = "nil"
    /\ store = NewStore
    /\ packer = NoPacker
    /\ pipe = NoPipe

\* m := NewManifest(files)
CallNewManifest ==
    /\ hist.n < MaxCalls
    /\ \E fs \in ManifestTrees, incl \in ManifestIncludes, now \in {clock, clock + 1} :
          /\ tree' = fs
          /\ ls' = Scan(fs, incl, {})
          /\ clock' = now
          /\ m' = NewManifest(Scan(fs, incl, {}), fs, now)
    /\ hist' = [op |-> "NewManifest", n |-> hist.n + 1, before |-> EmptyManifest, removed |-> ""]
    /\ pc' = "ready"
    /\ UNCHANGED <<dest, layer, changed, latest, gs, sem, ret>>
    /\ UNCHANGED <<store, packer, pipe>>

\* m.Update(files)
CallUpdate ==
    /\ pc = "ready"
    /\ hist.n < MaxCalls
    /\ \E fs \in ManifestTrees, incl \in ManifestIncludes, now \in {clock, clock + 1} :
          /\ tree' = fs
          /\ ls' = Scan(fs, incl, {})
          /\ clock' = now
          /\ m' = Update(m, Scan(fs, incl, {}), fs, now)
    /\ hist' = [op |-> "Update", n |-> hist.n + 1, before |-> m, removed |-> ""]
    /\ UNCHANGED <<dest, layer, changed, latest, gs, sem, pc, ret>>
    /\ UNCHANGED <<store, packer, pipe>>

\* m.Remove(f)
CallRemove ==
    /\ pc = "ready"
    /\ hist.n < MaxCalls
    /\ \E p \in {"/r", "/r/a", "/r/b"} :
          /\ m' = Remove(m, [path |-> p])
          /\ hist' = [op |-> "Remove", n |-> hist.n + 1, before |-> m, removed |-> p]
          /\ ret' = IF p \in DOMAIN m.pathMap THEN "true" ELSE "false"
    /\ UNCHANGED <<tree, dest, layer, clock, ls, changed, latest, gs, sem, pc>>
    /\ UNCHANGED <<store, packer, pipe>>

NextManifest ==
    \/ CallNewManifest
    \/ CallUpdate
    \/ CallRemove

SpecManifest == InitManifest /\ [][NextManifest]_vars

-----------------------------------------------------------------------------
(* Claims about the manifest (SpecManifest). *)

\* The path of the i-th entry of Entries.
EntryPath(mm, i) == mm.heap[mm.Entries[i]].file.path

\* C11: after any sequence of NewManifest, Update and Remove calls, no two
\* entries of Entries have the same path, pathMap maps the path of each entry to
\* the pointer of that very entry, and pathMap has as many keys as Entries has
\* entries.
C11_ManifestIndex ==
    /\ \A i, j \in 1..Len(m.Entries) : EntryPath(m, i) = EntryPath(m, j) => i = j
    /\ \A i \in 1..Len(m.Entries) :
          /\ EntryPath(m, i) \in DOMAIN m.pathMap
          /\ m.pathMap[EntryPath(m, i)] = m.Entries[i]
    /\ Cardinality(DOMAIN m.pathMap) = Len(m.Entries)

\* An Update has overwritten an entry, then a Remove of an entry that was not
\* the last one has moved the last entry into its slot.
C11_Witness ==
    /\ hist.op = "Remove" /\ ret = "true"
    /\ Len(hist.before.Entries) = 3
    /\ hist.before.pathMap[hist.removed] # hist.before.Entries[3]
    /\ \E i \in 1..3 : hist.before.heap[hist.before.Entries[i]].set # hist.before.LastSet
    /\ Len(m.Entries) = 2

\* The paths of the files of the call.
CallPaths == {ls[i].path : i \in 1..Len(ls)}

\* The file of the call with path p, with its checksum when it is not a directory.
CallFile(p) ==
    LET f == CHOOSE g \in {ls[i] : i \in 1..Len(ls)} : g.path = p
    IN  IF f.kind = "dir" THEN f ELSE [f EXCEPT !.sha1 = SHA1(tree[p].content)]

\* C12: after Update(files), every file of files has an entry with
\* set == LastSet, in the object of the path's previous entry when there was
\* one and in a new last entry otherwise; every entry of another path is the
\* same object with the same set, parts and file.
C12_UpdateEffect ==
    hist.op = "Update" =>
        /\ \A p \in CallPaths :
              /\ p \in DOMAIN m.pathMap
              /\ m.heap[m.pathMap[p]].set = m.LastSet
              /\ m.heap[m.pathMap[p]].file = CallFile(p)
              /\ p \in DOMAIN hist.before.pathMap => m.pathMap[p] = hist.before.pathMap[p]
        /\ \A p \in DOMAIN hist.before.pathMap \ CallPaths :
              /\ p \in DOMAIN m.pathMap
              /\ m.pathMap[p] = hist.before.pathMap[p]
              /\ m.heap[m.pathMap[p]] = hist.before.heap[hist.before.pathMap[p]]
        /\ SubSeq(m.Entries, 1, Len(hist.before.Entries)) = hist.before.Entries
        /\ Len(m.Entries) =
              Len(hist.before.Entries) + Cardinality(CallPaths \ DOMAIN hist.before.pathMap)
        /\ DOMAIN m.pathMap = DOMAIN hist.before.pathMap \cup CallPaths

\* An Update that overwrote an entry, appended another and left a third alone.
C12_Witness ==
    /\ hist.op = "Update"
    /\ \E p \in CallPaths : p \in DOMAIN hist.before.pathMap
    /\ \E p \in CallPaths : p \notin DOMAIN hist.before.pathMap
    /\ \E p \in DOMAIN hist.before.pathMap : p \notin CallPaths
    /\ \E p \in CallPaths : p \in DOMAIN hist.before.pathMap
          /\ m.heap[m.pathMap[p]].file # hist.before.heap[hist.before.pathMap[p]].file

\* The text of a set key: Sprintf("%016x", t.UnixNano()), as its digits.
sortedHex(t) == ZeroPad(HexDigits(t), 16)

\* s < t in the lexicographic order of digit strings.
RECURSIVE LexLess(_, _)
LexLess(s, t) ==
    IF t = <<>> THEN FALSE
    ELSE IF s = <<>> THEN TRUE
    ELSE IF Head(s) # Head(t) THEN Head(s) < Head(t)
    ELSE LexLess(Tail(s), Tail(t))

\* C13 as stated: every Update sets LastSet to a key of 16 hexadecimal digits
\* that differs from the previous LastSet of the manifest and is greater in the
\* lexicographic order.  Violated: the key is the reading of the clock, and two
\* readings can be the same.
C13_Original ==
    hist.op = "Update" =>
        /\ Len(sortedHex(m.LastSet)) = 16
        /\ \A i \in 1..16 : sortedHex(m.LastSet)[i] \in 0..15
        /\ m.LastSet # hist.before.LastSet
        /\ LexLess(sortedHex(hist.before.LastSet), sortedHex(m.LastSet))

-----------------------------------------------------------------------------
(* The calls of one Store on one storage layer, from NewStore on.          *)
(* Specification SpecStore: Wipe, Unlock, Open, Put, Get, Pack and the     *)
(* calls of the Packer, on a layer that is new, has no container yet, or   *)
(* holds the metadata of store_test.go.  Specification SpecMetadata: Wipe, *)
(* Unlock, Open, PutMetadata and GetMetadata, the metadata being also      *)
(* written from outside the store (MockStorage.PutString).  Any put of the *)
(* layer can fail.  hist holds the call just made: its arguments, what it  *)
(* returned besides the error (out), the layer, the store and the packer   *)
(* before it, and puts, the data and crypter of the last successful Put    *)
(* under each key, set, the userData keys that the metadata object has     *)
(* ever had, and ext, whether the object was ever written from outside.    *)
(* Get and GetMetadata are not counted in n, which is bounded by max.      *)

MaxStoreCalls == 4

MaxMetaCalls == 3

c_FLUSH_SIZE == 65535

\* The secret and the salts.
testSecret == 1
testSalt == 5
WipeSalt == 6

\* The metadata documents written from outside: the four of store_test.go, the
\* bare {"version":1}, one with user data and one without a version.
testMetadata == MetaDoc(1, 1, testSalt, NilMap)
testBadBase64 == MetaDoc(1, 1, Invalid, NilMap)
testBadSyntax == BadSyntax
testBadVersion == MetaDoc(7, 1, testSalt, NilMap)
testVersionOnly == MetaDoc(1, Omitted, Omitted, NilMap)
testUserData ==
    MetaDoc(1, Omitted, Omitted, MakeMap([k \in {"foo"} |-> [t |-> "string", v |-> "bar"]]))
testNoVersion == MetaDoc(Omitted, 1, testSalt, NilMap)
testVersionString == MetaDoc(Invalid, 1, testSalt, NilMap)

MetadataDocs == {testMetadata, testBadBase64, testBadSyntax, testBadVersion,
                 testVersionOnly, testUserData, testNoVersion, testVersionString}

\* The keys given to Open: those of the secret and the test salt, those of
\* another secret, and the empty Keys{}.
testCryptoKeys == DeriveKeys(testSecret, testSalt)

OpenKeys == {testCryptoKeys, DeriveKeys(testSecret + 1, testSalt), NoKeys}

ObjectKeys == {"test", c_METADATA_KEY}

\* The data: nothing, one byte, and twelve bytes, whose gzip stream fills a
\* whole cipher block.
testData == {<<>>, <<65>>, [i \in 1..12 |-> 64 + i]}

\* The sources of a PutReader: a bytes.Reader and an iotest.OneByteReader.
ReadSizes == {1, c_FLUSH_SIZE}

UserKeys == {"foo", "manifest/latest"}

UserValues == {[t |-> "int", v |-> "123"]}

StartStoreHist ==
    [op |-> "none", n |-> 0, max |-> 0, key |-> "", data |-> <<>>, out |-> <<>>,
     layer |-> NewMockStorage, store |-> NewStore, packer |-> NoPacker, puts |-> EmptyMap,
     set |-> {}, ext |-> FALSE]

\* The record of a call; the fields not given keep the values of a call without them.
Call(op, key, data, out, counted) ==
    [op |-> op, n |-> IF counted THEN hist.n + 1 ELSE hist.n, max |-> hist.max,
     key |-> key, data |-> data,
     out |-> out, layer |-> layer, store |-> store, packer |-> packer, puts |-> hist.puts,
     set |-> hist.set, ext |-> hist.ext]

StartLayers ==
    {NewMockStorage, [exists |-> FALSE, dataStore |-> EmptyMap],
     LayerPutReader(NewMockStorage, c_METADATA_KEY, testMetadata)}

\* The userData keys of the metadata object of a layer.
UserKeysOf(lyr) ==
    IF c_METADATA_KEY \in DOMAIN lyr.dataStore
    THEN DOMAIN lyr.dataStore[c_METADATA_KEY].userData.kv ELSE {}

InitCalls(layers, max) ==
    /\ layer \in layers
    /\ store = NewStore
    /\ packer = NoPacker
    /\ pipe = NoPipe
    /\ ret = "nil"
    /\ hist = [StartStoreHist EXCEPT !.layer = layer, !.max = max, !.set = UserKeysOf(layer)]
    /\ pc = "idle"
    /\ tree = EmptyTree
    /\ dest = EmptyTree
    /\ clock = 0
    /\ m = EmptyManifest
    /\ ls = <<>>
    /\ changed = <<>>
    /\ latest = EmptyMap
    /\ gs = EmptyMap
    /\ sem = 0

StoreFrame == UNCHANGED <<tree, dest, clock, m, ls, changed, latest, gs, sem, pc, pipe>>

\* layer.PutString(c_METADATA_KEY, doc), from outside the store.
LayerPutString ==
    /\ hist.n < hist.max
    /\ \E doc \in MetadataDocs :
          /\ layer' = LayerPutReader(layer, c_METADATA_KEY, doc)
          /\ hist' = [Call("PutString", c_METADATA_KEY, doc, <<>>, TRUE) EXCEPT
                !.set = @ \cup DOMAIN doc.userData.kv, !.ext = TRUE]
    /\ ret' = "nil"
    /\ UNCHANGED <<store, packer>>
    /\ StoreFrame

CallWipe ==
    /\ hist.n < hist.max
    /\ \E ok \in BOOLEAN :
          LET r == Wipe(store, layer, testSecret, WipeSalt, ok)
          IN  /\ store' = r.store
              /\ layer' = r.layer
              /\ ret' = r.err
              /\ hist' = Call("Wipe", "", <<>>, r.keys, TRUE)
    /\ UNCHANGED packer
    /\ StoreFrame

CallUnlock ==
    /\ hist.n < hist.max
    /\ LET r == Unlock(store, layer, testSecret)
       IN  /\ store' = r.store
           /\ ret' = r.err
           /\ hist' = Call("Unlock", "", <<>>, r.keys, TRUE)
    /\ UNCHANGED <<layer, packer>>
    /\ StoreFrame

CallOpen ==
    /\ hist.n < hist.max
    /\ \E keys \in OpenKeys :
          /\ store' = Open(store, layer, keys).store
          /\ ret' = Open(store, layer, keys).err
          /\ hist' = Call("Open", "", keys, <<>>, TRUE)
    /\ UNCHANGED <<layer, packer>>
    /\ StoreFrame

\* Put(key, data)
CallPut ==
    /\ hist.n < hist.max
    /\ \E key \in ObjectKeys, data \in testData, iv \in {3}, ok \in BOOLEAN :
       \E zerr \in CompressReaderErrs(data) :
          LET r == StorePutReader(store, layer, key, data, c_FLUSH_SIZE, zerr, iv, ok)
          IN  /\ layer' = r.layer
              /\ ret' = r.err
              /\ hist' = [Call("Put", key, data, <<>>, TRUE) EXCEPT
                    !.puts = IF r.err = "nil"
                             THEN MapPut(@, key, [data |-> data, enc |-> store.enc,
                                                  nth |-> IF key \in DOMAIN @
                                                          THEN @[key].nth + 1 ELSE 1])
                             ELSE @]
    /\ UNCHANGED <<store, packer>>
    /\ StoreFrame

\* Get(key)
CallGet ==
    /\ \E key \in ObjectKeys :
          /\ ret' = StoreGet(store, layer, key).err
          /\ hist' = Call("Get", key, <<>>, StoreGet(store, layer, key).data, FALSE)
    /\ UNCHANGED <<layer, store, packer>>
    /\ StoreFrame

\* Pack(key)
CallPack ==
    /\ hist.n < hist.max
    /\ packer = NoPacker
    /\ \E key \in ObjectKeys :
          /\ ret' = Pack(store, key).err
          /\ packer' = Pack(store, key).packer
          /\ hist' = Call("Pack", key, <<>>, <<>>, TRUE)
    /\ UNCHANGED <<layer, store>>
    /\ StoreFrame

\* The put of the layer that the uploader runs fails before the pipe is at its end.
UploaderFails ==
    /\ packer # NoPacker
    /\ packer.up = "reading"
    /\ packer' = [packer EXCEPT !.up = "failed", !.rerr = "put failed"]
    /\ hist' = Call("UploaderFails", packer.key, <<>>, <<>>, FALSE)
    /\ UNCHANGED <<layer, store, ret>>
    /\ StoreFrame

\* packer.PutReader(r); on a closed Packer it changes nothing and is not counted.
CallPackerPutReader ==
    /\ packer.closed \/ hist.n < hist.max
    /\ packer # NoPacker
    /\ \E data \in testData, n \in ReadSizes, srcErr \in {"nil", "timeout"}, ok \in BOOLEAN :
       \E zerr \in CompressReaderErrs(data) :
          LET r == PackerPutReader(store, packer, layer, data, n, zerr, srcErr, 3, ok)
          IN  /\ packer' = [r.packer EXCEPT
                    !.ferr = IF @ = "nil" /\ ~packer.closed THEN r.err ELSE @]
              /\ layer' = r.layer
              /\ ret' = r.err
              /\ hist' = [Call("PackerPutReader", packer.key, data, <<>>, ~packer.closed) EXCEPT
                    !.puts = IF r.layer # layer THEN MapDelete(@, packer.key) ELSE @]
    /\ UNCHANGED store
    /\ StoreFrame

\* packer.Close(); on a closed Packer it changes nothing and is not counted.
CallPackerClose ==
    /\ packer.closed \/ hist.n < hist.max
    /\ packer # NoPacker
    /\ \E ok \in BOOLEAN :
          LET r == PackerClose(packer, layer, ok)
          IN  /\ packer' = r.packer
              /\ layer' = r.layer
              /\ ret' = r.err
              /\ hist' = [Call("PackerClose", packer.key, <<>>, <<>>, ~packer.closed) EXCEPT
                    !.puts = IF r.layer # layer THEN MapDelete(@, packer.key) ELSE @]
    /\ UNCHANGED store
    /\ StoreFrame

\* PutMetadata(key, data)
CallPutMetadata ==
    /\ hist.n < hist.max
    /\ \E key \in UserKeys, data \in UserValues, ok \in BOOLEAN :
          LET r == StorePutMetadata(store, layer, key, data, ok)
          IN  /\ store' = r.store
              /\ layer' = r.layer
              /\ ret' = r.err
              /\ hist' = [Call("PutMetadata", key, data, <<>>, TRUE) EXCEPT
                    !.set = @ \cup UserKeysOf(r.layer)]
    /\ UNCHANGED packer
    /\ StoreFrame

\* GetMetadata(key)
CallGetMetadata ==
    /\ \E key \in UserKeys :
          LET r == StoreGetMetadata(store, layer, key)
          IN  /\ store' = r.store
              /\ ret' = r.err
              /\ hist' = Call("GetMetadata", key, <<>>, r.data, FALSE)
    /\ UNCHANGED <<layer, packer>>
    /\ StoreFrame

InitStore == InitCalls(StartLayers, MaxStoreCalls)

NextStore ==
    \/ CallWipe
    \/ CallUnlock
    \/ CallOpen
    \/ CallPut
    \/ CallGet
    \/ CallPack
    \/ UploaderFails
    \/ CallPackerPutReader
    \/ CallPackerClose

SpecStore == InitStore /\ [][NextStore]_vars

InitMetadata == InitCalls(StartLayers, MaxMetaCalls)

NextMetadata ==
    \/ LayerPutString
    \/ CallWipe
    \/ CallUnlock
    \/ CallOpen
    \/ CallPutMetadata
    \/ CallGetMetadata

SpecMetadata == InitMetadata /\ [][NextMetadata]_vars

-----------------------------------------------------------------------------
(* C14: once a Put(key, x) has returned nil, a Get(key) by a store with    *)
(* the same keys returns nil and exactly x, where x is the data of the     *)
(* latest Put of the key that returned nil: a later Put overwrites.        *)
C14_PutGetRoundTrip ==
    (/\ hist.op = "Get"
     /\ hist.key \in DOMAIN hist.puts
     /\ hist.puts[hist.key].enc = store.enc)
    => (ret = "nil" /\ hist.out = hist.puts[hist.key].data)

\* A Get that returns the twelve bytes of the second Put of its key.
C14_Witness ==
    /\ hist.op = "Get"
    /\ hist.key \in DOMAIN hist.puts
    /\ hist.puts[hist.key].nth = 2
    /\ hist.puts[hist.key].enc = store.enc
    /\ ret = "nil"
    /\ Len(hist.out) = 12

-----------------------------------------------------------------------------
(* C15, as stated: Put, Get and Pack (PutReader and GetReader are what Put *)
(* and Get call) with the key "metadata" return ErrForbiddenKey, on a      *)
(* store that is not connected they return ErrStoreNotConnected, and in    *)
(* both cases the layer is as before, nothing is returned and no Packer is *)
(* made.                                                                   *)
GuardedCall == hist.op \in {"Put", "Get", "Pack"}

ErrForbiddenKey == "read/write to key name is forbidden"

ErrStoreNotConnected == "store not ready for reading/writing"

GuardLeavesLayer == layer = hist.layer /\ hist.out = <<>> /\ packer = hist.packer

C15_Original ==
    /\ (GuardedCall /\ isForbiddenKey(hist.key)) => (ret = ErrForbiddenKey /\ GuardLeavesLayer)
    /\ (GuardedCall /\ ~isConnected(hist.store))
          => (ret = ErrStoreNotConnected /\ GuardLeavesLayer)

(* C15, amended: the key is looked at first.  With the key "metadata" the  *)
(* calls return ErrForbiddenKey, connected or not; with another key on a   *)
(* store that is not connected they return ErrStoreNotConnected; in both   *)
(* cases the layer is as before, nothing is returned and no Packer is      *)
(* made.                                                                   *)
C15_GuardedOperations ==
    /\ (GuardedCall /\ isForbiddenKey(hist.key)) => (ret = ErrForbiddenKey /\ GuardLeavesLayer)
    /\ (GuardedCall /\ ~isForbiddenKey(hist.key) /\ ~isConnected(hist.store))
          => (ret = ErrStoreNotConnected /\ GuardLeavesLayer)

\* A Get of the key "metadata" by a store that is not connected, on a layer
\* that has the object.
C15_Witness ==
    /\ hist.op = "Get"
    /\ isForbiddenKey(hist.key)
    /\ ~isConnected(hist.store)
    /\ hist.key \in DOMAIN layer.dataStore
    /\ ret = ErrForbiddenKey

-----------------------------------------------------------------------------
(* C16, as stated: an Unlock on a layer without a metadata object returns  *)
(* ErrStoreNotInitialized and empty keys and the store is not connected    *)
(* after it; an Unlock on a layer whose metadata object is valid returns   *)
(* nil and the store is connected after it.                                *)
ErrStoreNotInitialized == "remote store not initialized"

NoMetadataObject(lyr) == c_METADATA_KEY \notin DOMAIN lyr.dataStore

\* The metadata object is there and a new store reads it without error.
ValidMetadata(lyr) == loadStoreMetadata(NewStore, lyr).err = "nil"

UnlockSucceeds ==
    (hist.op = "Unlock" /\ ValidMetadata(hist.layer))
    => (/\ ret = "nil"
        /\ isConnected(store)
        /\ hist.out = DeriveKeys(testSecret, store.meta[1].Salt))

C16_Original ==
    /\ (hist.op = "Unlock" /\ NoMetadataObject(hist.layer))
          => (ret = ErrStoreNotInitialized /\ hist.out = NoKeys /\ ~isConnected(store))
    /\ UnlockSucceeds

(* C16, amended: an Unlock on a layer without a metadata object returns    *)
(* ErrStoreNotInitialized and empty keys and leaves the store as it was,   *)
(* not connected if it was not, and connected with its keys if an Open had *)
(* connected it; an Unlock on a layer whose metadata object is valid       *)
(* returns nil and the store is connected after it.                        *)
C16_Unlock ==
    /\ (hist.op = "Unlock" /\ NoMetadataObject(hist.layer))
          => (ret = ErrStoreNotInitialized /\ hist.out = NoKeys /\ store = hist.store)
    /\ UnlockSucceeds

\* An Unlock that fails on a layer without metadata, by a store that an Open
\* had connected.
C16_Witness ==
    /\ hist.op = "Unlock"
    /\ NoMetadataObject(hist.layer)
    /\ isConnected(hist.store)
    /\ ret = ErrStoreNotInitialized
    /\ isConnected(store)

-----------------------------------------------------------------------------
(* C17, as stated: a call that reads the metadata object from the layer    *)
(* (Unlock, GetMetadata or PutMetadata by a store without cached metadata) *)
(* returns ErrMalformedMetadata when the object has no version field or    *)
(* cannot be parsed, and ErrBadVersion when it has a version other than 1; *)
(* after either the store has no cached metadata.                          *)
ReadsMetadataObject ==
    /\ hist.op \in {"Unlock", "GetMetadata", "PutMetadata"}
    /\ hist.store.meta = <<>>
    /\ ~NoMetadataObject(hist.layer)

MetadataObject == hist.layer.dataStore[c_METADATA_KEY]

VersionAbsent == MetadataObject.syntax /\ MetadataObject.version = Omitted

Unparseable ==
    \/ ~MetadataObject.syntax
    \/ Invalid \in {MetadataObject.version, MetadataObject.storeFormat, MetadataObject.salt}

VersionUnrecognized ==
    /\ MetadataObject.syntax
    /\ MetadataObject.version \notin {Omitted, Invalid, 1}

C17_Original ==
    ReadsMetadataObject =>
       /\ (VersionAbsent \/ Unparseable) => (ret = "malformed metadata" /\ store.meta = <<>>)
       /\ VersionUnrecognized => (ret = "bad version" /\ store.meta = <<>>)

-----------------------------------------------------------------------------
(* C18, as stated: a GetMetadata of a key that the metadata object never   *)
(* had, by a store that can read its metadata, returns ErrMissingMetadata; *)
(* after a PutMetadata(k, v) that returned nil, GetMetadata(k) returns v,  *)
(* and the version, the storeFormat, the salt and the other userData keys  *)
(* of the metadata object are those it had before (for an object that only *)
(* the store has written).                                                 *)
ErrMissingMetadata == "user metadata not set"

MetadataReadable == loadStoreMetadata(hist.store, hist.layer).err = "nil"

ObjectBefore == hist.layer.dataStore[c_METADATA_KEY]

ObjectAfter == layer.dataStore[c_METADATA_KEY]

GetOfKeyNeverSet ==
    (hist.op = "GetMetadata" /\ MetadataReadable /\ hist.key \notin hist.set)
    => ret = ErrMissingMetadata

PutMetadataEffect ==
    (hist.op = "PutMetadata" /\ ret = "nil" /\ ~hist.ext)
    => (/\ StoreGetMetadata(store, layer, hist.key).err = "nil"
        /\ StoreGetMetadata(store, layer, hist.key).data = hist.data
        /\ ObjectAfter.version = ObjectBefore.version
        /\ ObjectAfter.storeFormat = ObjectBefore.storeFormat
        /\ ObjectAfter.salt = ObjectBefore.salt
        /\ DOMAIN ObjectAfter.userData.kv = DOMAIN ObjectBefore.userData.kv \cup {hist.key}
        /\ \A k \in DOMAIN ObjectBefore.userData.kv \ {hist.key} :
              ObjectAfter.userData.kv[k] = ObjectBefore.userData.kv[k])

C18_Original == GetOfKeyNeverSet /\ PutMetadataEffect

-----------------------------------------------------------------------------
(* C19: a Get of a key that the layer does not have, by a connected store, *)
(* returns an error for which IsNotExist is true.  When getLatestManifest  *)
(* returns the not-found error, ScanAndBackup calls backupLatest with      *)
(* NewManifest of the whole scan: at the start of the upload loop the      *)
(* manifest is that one and there is an upload to make for each of its     *)
(* objects.  When getLatestManifest returns another error, the run is over *)
(* with that error, no upload was started and the store is as it was.      *)
GetOfAbsentKeyIsNotExist ==
    \A lyr \in StartLayers, keys \in OpenKeys, key \in ObjectKeys :
       (/\ Open(NewStore, lyr, keys).err = "nil"
        /\ ~isForbiddenKey(key)
        /\ key \notin DOMAIN lyr.dataStore)
       => IsNotExist(StoreGet(Open(NewStore, lyr, keys).store, lyr, key).err)

\* backupLatest has been called and none of its goroutines has run yet.
BackupLatestCalled == pc = "loop" /\ \A k \in DOMAIN gs : gs[k].pc = "idle"

C19_FirstRunDetection ==
    /\ GetOfAbsentKeyIsNotExist
    /\ (hist.fetch = "notfound" /\ pc \notin {"start", "crashed"})
          => (/\ changed = ls
              /\ DOMAIN gs = DOMAIN LatestEntries(NewManifest(ls, tree, clock)))
    /\ (hist.fetch = "notfound" /\ BackupLatestCalled)
          => (/\ m = NewManifest(ls, tree, clock)
              /\ latest = LatestEntries(m))
    /\ hist.fetch = "err"
          => (/\ pc = "done"
              /\ ret = "err"
              /\ gs = EmptyMap
              /\ layer \in BackupStartLayers
              /\ layer.latestPtr = hist.ptr0)

\* The first run on a fresh store, about to upload two objects.
C19_Witness ==
    /\ hist.fetch = "notfound"
    /\ BackupLatestCalled
    /\ hist.ptr0 = Nil
    /\ m = NewManifest(ls, tree, clock)
    /\ Cardinality(DOMAIN gs) >= 2

-----------------------------------------------------------------------------
(* C20: after Pack(key), exactly one PutReader(r) that returned nil and a  *)
(* Close that returned nil, the layer has an object under the key and a    *)
(* Get(key) with the same keys returns exactly the data of r, whether r    *)
(* delivers it in one read or byte by byte; a Close of a closed Packer     *)
(* returns what the first Close returned and changes neither the Packer    *)
(* nor the layer.                                                          *)
PackedOne ==
    /\ packer # NoPacker
    /\ packer.closed
    /\ packer.closeErr = "nil"
    /\ packer.nput = 1

C20_PackerSuccess ==
    /\ (PackedOne /\ hist.op = "PackerClose") => packer.key \in DOMAIN layer.dataStore
    /\ (/\ PackedOne
        /\ hist.op = "Get"
        /\ hist.key = packer.key
        /\ hist.key \notin DOMAIN hist.puts
        /\ store.enc = packer.enc)
       => (ret = "nil" /\ hist.out = packer.src)
    /\ (hist.op = "PackerClose" /\ hist.packer.closed)
       => (ret = hist.packer.closeErr /\ packer = hist.packer /\ layer = hist.layer)

\* A Get that returns the twelve bytes that a Packer read byte by byte.
C20_Witness ==
    /\ PackedOne
    /\ hist.op = "Get"
    /\ hist.key = packer.key
    /\ store.enc = packer.enc
    /\ packer.srcN = 1
    /\ Len(packer.src) = 12
    /\ ret = "nil"
    /\ hist.out = packer.src

-----------------------------------------------------------------------------
(* C21, as stated: once a PutReader has failed on a Packer that was not    *)
(* closed, every later PutReader on it returns the closed-pipe error,      *)
(* every Close returns the error of that first failure, the calls of the   *)
(* Packer leave the layer as it is, and a Get of the key, of which there   *)
(* was no Put, returns a not-found error.                                  *)
PackerFailed == packer # NoPacker /\ packer.ferr # "nil"

C21_Original ==
    /\ (hist.op = "PackerPutReader" /\ hist.packer.ferr # "nil") => ret = ErrClosedPipe
    /\ (hist.op = "PackerClose" /\ PackerFailed) => ret = packer.ferr
    /\ (hist.op \in {"PackerPutReader", "PackerClose"} /\ PackerFailed) => layer = hist.layer
    /\ (/\ PackerFailed
        /\ hist.op = "Get"
        /\ hist.key = packer.key
        /\ hist.key \notin DOMAIN hist.puts
        /\ isConnected(store))
       => IsNotExist(ret)

-----------------------------------------------------------------------------
(* The crypto pipeline of TestCryptoReaders and TestCryptoReaderErrors: a  *)
(* plaintext behind an encryptReader, the bytes read from it (wire), which *)
(* the test may extend or cut, and a decryptReader over them.  ext is the  *)
(* number of bytes appended to the envelope, cut whether it was cut; out   *)
(* is what the Reads of the decrypt stream have returned, err the first    *)
(* error of the decrypt stream ("none" before it), auth whether a Read has *)
(* returned the HMAC-mismatch error.                                       *)

SampleLens == {0, 1, 15, 16, 17, 32}

samples == {[i \in 1..k |-> 64 + i] : k \in SampleLens}

ReadLens == {1, 16, 17, 512}

\* "abc", "exactly 16 bytes", and a signature's worth of bytes.
extraBytes == {[i \in 1..k |-> 96 + i] : k \in {3, 16, 20}}

\* io.LimitReader(e, k): up to the 36 bytes of the test.
LimitLens == 0..36

testCrypter == NewCrypter(testCryptoKeys)[1]

StartPipe(x) ==
    [x |-> x, pc |-> "encrypt", e |-> NewEncryptReader(testCrypter, IV(3), x),
     wire |-> <<>>, ext |-> 0, cut |-> FALSE, d |-> <<>>, out |-> <<>>, err |-> "none",
     auth |-> FALSE]

Reading(op, lenb, data, err) ==
    [op |-> op, len |-> lenb, data |-> data, err |-> err, auth |-> pipe.auth]

InitCrypto ==
    /\ \E x \in samples : pipe = StartPipe(x)
    /\ hist = [op |-> "none", len |-> 0, data |-> <<>>, err |-> "nil", auth |-> FALSE]
    /\ ret = "nil"
    /\ layer = NewMockStorage
    /\ store = NewStore
    /\ packer = NoPacker
    /\ pc = "idle"
    /\ tree = EmptyTree
    /\ dest = EmptyTree
    /\ clock = 0
    /\ m = EmptyManifest
    /\ ls = <<>>
    /\ changed = <<>>
    /\ latest = EmptyMap
    /\ gs = EmptyMap
    /\ sem = 0

CryptoFrame ==
    UNCHANGED <<tree, dest, layer, clock, m, ls, changed, latest, gs, sem, pc, store, packer>>

\* One Read of the encrypt stream; its bytes go on the wire.
EncRead ==
    /\ pipe.pc = "encrypt"
    /\ \E lenb \in ReadLens :
          LET r == encryptReaderRead(testCrypter, pipe.e, lenb)
          IN  /\ pipe' = [pipe EXCEPT !.e = r.r, !.wire = @ \o r.data,
                                      !.pc = IF r.err = "EOF" THEN "wire" ELSE @]
              /\ ret' = r.err
              /\ hist' = Reading("EncRead", lenb, r.data, r.err)
    /\ CryptoFrame

\* io.MultiReader(e, extraBytes)
Extend ==
    /\ pipe.pc = "wire" /\ pipe.ext = 0 /\ ~pipe.cut
    /\ \E extra \in extraBytes :
          /\ pipe' = [pipe EXCEPT !.wire = @ \o extra, !.ext = Len(extra)]
          /\ hist' = Reading("Extend", Len(extra), extra, "nil")
    /\ UNCHANGED ret
    /\ CryptoFrame

\* io.LimitReader(e, k)
Limit ==
    /\ pipe.pc = "wire" /\ pipe.ext = 0 /\ ~pipe.cut
    /\ \E k \in LimitLens :
          /\ k < Len(pipe.wire)
          /\ pipe' = [pipe EXCEPT !.wire = SubSeq(@, 1, k), !.cut = TRUE]
          /\ hist' = Reading("Limit", k, <<>>, "nil")
    /\ UNCHANGED ret
    /\ CryptoFrame

\* enc.DecryptReader(wire)
CallDecryptReader ==
    /\ pipe.pc = "wire"
    /\ LET r == NewDecryptReader(testCrypter, pipe.wire)
       IN  /\ pipe' = [pipe EXCEPT !.d = r.r, !.pc = "decrypt",
                                   !.err = IF r.err = "nil" THEN @ ELSE r.err]
           /\ ret' = r.err
           /\ hist' = Reading("DecryptReader", 0, <<>>, r.err)
    /\ CryptoFrame

\* One Read of the decrypt stream.  A Read that panics ends the pipeline.
DecRead ==
    /\ pipe.pc = "decrypt"
    /\ pipe.d # <<>>
    /\ \E lenb \in ReadLens :
          LET r == decryptReaderRead(testCrypter, pipe.d[1], lenb)
          IN  /\ pipe' = [pipe EXCEPT !.d = <<r.r>>, !.out = @ \o r.data,
                                      !.err = IF @ = "none" /\ r.err # "nil" THEN r.err ELSE @,
                                      !.auth = @ \/ r.err = ErrNotAuthentic,
                                      !.pc = IF r.err = "panic" THEN "panicked" ELSE @]
              /\ ret' = r.err
              /\ hist' = Reading("DecRead", lenb, r.data, r.err)
    /\ CryptoFrame

NextCrypto ==
    \/ EncRead
    \/ Extend
    \/ Limit
    \/ CallDecryptReader
    \/ DecRead

SpecCrypto == InitCrypto /\ [][NextCrypto]_vars

Untouched == pipe.ext = 0 /\ ~pipe.cut

-----------------------------------------------------------------------------
(* C22: whatever the sizes of the Reads on the encrypt stream and on the   *)
(* decrypt stream, the bytes read from the encrypt stream are the envelope *)
(* of the plaintext, and the Reads of the decrypt stream over it return    *)
(* the bytes of the plaintext in order, each Read some bytes or the end,   *)
(* and end with io.EOF once all of the plaintext, and nothing else, has    *)
(* been returned.                                                          *)
C22_RoundTrip ==
    /\ pipe.pc = "encrypt" =>
          /\ Len(pipe.wire) <= Len(EncryptReader(testCrypter, IV(3), pipe.x))
          /\ pipe.wire = SubSeq(EncryptReader(testCrypter, IV(3), pipe.x), 1, Len(pipe.wire))
    /\ (pipe.pc = "wire" /\ Untouched) =>
          pipe.wire = EncryptReader(testCrypter, IV(3), pipe.x)
    /\ (pipe.pc \in {"decrypt", "panicked"} /\ Untouched) =>
          /\ pipe.pc = "decrypt"
          /\ pipe.d # <<>>
          /\ pipe.err \in {"none", "EOF"}
          /\ Len(pipe.out) <= Len(pipe.x)
          /\ pipe.out = SubSeq(pipe.x, 1, Len(pipe.out))
          /\ pipe.err = "EOF" => pipe.out = pipe.x
          /\ hist.op = "DecRead" => (hist.data # <<>> \/ hist.err = "EOF")

C22_Witness ==
    /\ Untouched
    /\ pipe.pc = "decrypt"
    /\ hist.op = "DecRead"
    /\ hist.len = 1
    /\ pipe.err = "EOF"
    /\ Len(pipe.x) = 16
    /\ pipe.out = pipe.x

-----------------------------------------------------------------------------
(* C23, as stated: over an input of 0 to 31 bytes decryption fails with    *)
(* "ciphertext too short": DecryptReader or the first Read that returns    *)
(* an error returns that one, no Read panics and none returns a byte.      *)
ShortInput == pipe.cut /\ Len(pipe.wire) <= 31 /\ pipe.pc \in {"decrypt", "panicked"}

C23_Original ==
    ShortInput =>
        /\ pipe.pc = "decrypt"
        /\ pipe.err \in {"none", ErrTooShort}
        /\ pipe.out = <<>>

-----------------------------------------------------------------------------
(* C24: over an envelope followed by extra bytes, the first Read of the    *)
(* decrypt stream that returns an error, which a read to the end stops at, *)
(* returns "ciphertext is not a multiple of the block size" when the       *)
(* number of extra bytes is not a multiple of 16 and "ciphertext not       *)
(* authentic" when it is 16; no Read panics, and no io.EOF comes first.    *)
C24_ExtendedCiphertext ==
    (pipe.ext > 0 /\ pipe.pc \in {"decrypt", "panicked"}) =>
        /\ pipe.pc = "decrypt"
        /\ pipe.d # <<>>
        /\ (pipe.err # "none" /\ pipe.ext % c_BLOCK_SIZE # 0) => pipe.err = ErrNotBlocks
        /\ (pipe.err # "none" /\ pipe.ext = c_BLOCK_SIZE) => pipe.err = ErrNotAuthentic
        /\ (hist.op = "DecRead" /\ pipe.err = "none") => hist.data # <<>>

C24_Witness ==
    /\ pipe.ext = 3
    /\ Len(pipe.x) = 17
    /\ hist.op = "DecRead"
    /\ hist.len = 1
    /\ hist.err = ErrNotBlocks
    /\ pipe.err = ErrNotBlocks

C24_WitnessBlock ==
    /\ pipe.ext = c_BLOCK_SIZE
    /\ hist.op = "DecRead"
    /\ hist.err = ErrNotAuthentic
    /\ pipe.err = ErrNotAuthentic

-----------------------------------------------------------------------------
(* C25, as stated: a Read of the decrypt stream that comes after a Read    *)
(* that returned "ciphertext not authentic" returns no byte, and an error  *)
(* that is not io.EOF.                                                     *)
C25_Original ==
    (hist.op = "DecRead" /\ hist.auth) =>
        /\ hist.data = <<>>
        /\ hist.err \notin {"nil", "EOF"}

-----------------------------------------------------------------------------
(* The bundler on its own: a list of files, as Compare can return it, and  *)
(* the two bundling strategies applied to it.  The list is the scan of a   *)
(* tree, with its directories and its short and long files, followed by a  *)
(* number of files of one size in the directory /s.                        *)

MaxMany == 18     \* at most MaxMany files in /s

ManySizes == {50, c_BUNDLE_LIMIT_SIZE, c_BUNDLE_LIMIT_SIZE + 1}

Many(k, size) ==
    [i \in 1..k |-> [path |-> ManyPaths[i], kind |-> "reg", size |-> size, mode |-> FileMode,
                    mtime |-> 1, sha1 |-> 0]]

BundleInputs ==
    {Scan(t, {"/r"}, {}) \o Many(k, size) :
        t \in BackupTrees \cup {EmptyTree}, k \in 0..MaxMany, size \in ManySizes}

InitBundle ==
    /\ ls \in BundleInputs
    /\ hist = [op |-> "none", out |-> <<>>]
    /\ pipe = NoPipe
    /\ ret = "nil"
    /\ layer = NewMockStorage
    /\ store = NewStore
    /\ packer = NoPacker
    /\ pc = "idle"
    /\ tree = EmptyTree
    /\ dest = EmptyTree
    /\ clock = 0
    /\ m = EmptyManifest
    /\ changed = <<>>
    /\ latest = EmptyMap
    /\ gs = EmptyMap
    /\ sem = 0

BundleFrame ==
    UNCHANGED <<tree, dest, layer, clock, m, ls, changed, latest, gs, sem, pc, ret, store,
                packer, pipe>>

CallBundleByPathAndSize ==
    /\ hist' = [op |-> "bundleByPathAndSize", out |-> bundleByPathAndSize(ls)]
    /\ BundleFrame

CallBundleSmallFilesAcrossPaths ==
    /\ hist' = [op |-> "bundleSmallFilesAcrossPaths", out |-> bundleSmallFilesAcrossPaths(ls)]
    /\ BundleFrame

NextBundle ==
    \/ CallBundleByPathAndSize
    \/ CallBundleSmallFilesAcrossPaths

SpecBundle == InitBundle /\ [][NextBundle]_vars

RECURSIVE SumSizes(_)
SumSizes(bundle) ==
    IF bundle = <<>> THEN 0
    ELSE IF Len(bundle) = 1 THEN bundle[1].size
    ELSE LET half == Len(bundle) \div 2
         IN  SumSizes(SubSeq(bundle, 1, half)) + SumSizes(SubSeq(bundle, half + 1, Len(bundle)))

DirsBundle(bundle) == \A j \in 1..Len(bundle) : IsDir(bundle[j])

-----------------------------------------------------------------------------
(* C26, as stated: every bundle of bundleSmallFilesAcrossPaths that is not *)
(* the bundle of the directories is one file of more than                  *)
(* c_BUNDLE_LIMIT_SIZE bytes, or files of at most c_BUNDLE_LIMIT_SIZE      *)
(* bytes each whose sizes sum to at most c_BUNDLE_MAX_SIZE.                *)
C26_Original ==
    hist.op = "bundleSmallFilesAcrossPaths" =>
        \A i \in 1..Len(hist.out) :
            LET bundle == hist.out[i]
            IN  \/ DirsBundle(bundle)
                \/ Len(bundle) = 1 /\ bundle[1].size > c_BUNDLE_LIMIT_SIZE
                \/ /\ \A j \in 1..Len(bundle) : bundle[j].size <= c_BUNDLE_LIMIT_SIZE
                   /\ SumSizes(bundle) <= c_BUNDLE_MAX_SIZE

-----------------------------------------------------------------------------
(* C27: the bundles of either strategy are a partition of the files: no    *)
(* bundle is empty, every file of the list is at one place of one bundle   *)
(* and the bundles hold nothing else, and a directory is in the last       *)
(* bundle only, which then holds directories only.                         *)
C27_Partition ==
    hist.op \in {"bundleByPathAndSize", "bundleSmallFilesAcrossPaths"} =>
        /\ \A i \in 1..Len(hist.out) : Len(hist.out[i]) > 0
        /\ \A k \in 1..Len(ls) :
              Cardinality({<<i, j>> \in (1..Len(hist.out)) \X (1..Len(ls)) :
                              j <= Len(hist.out[i]) /\ hist.out[i][j] = ls[k]}) = 1
        /\ \A i \in 1..Len(hist.out) : \A j \in 1..Len(hist.out[i]) :
              /\ \E k \in 1..Len(ls) : hist.out[i][j] = ls[k]
              /\ IsDir(hist.out[i][j]) => i = Len(hist.out) /\ DirsBundle(hist.out[i])

C27_Witness ==
    /\ hist.op = "bundleByPathAndSize"
    /\ Len(hist.out) >= 5
    /\ Len(hist.out[Len(hist.out)]) = 2
    /\ DirsBundle(hist.out[Len(hist.out)])
    /\ \E i \in 1..Len(hist.out) : Len(hist.out[i]) > 2

-----------------------------------------------------------------------------
(* The key factory on its own: keyFactory(size) returns a closure over the *)
(* counter k, and every call of the closure returns the next key.  A key   *)
(* is the sequence of its hexadecimal digits (0..15 for "0".."9",          *)
(* "a".."f", whose byte order is the order of the digits).                 *)

MaxKeys == 17     \* factories of every size up to MaxKeys, and of size 256

KeySizes == 0..MaxKeys \cup {256}

InitKeys ==
    /\ hist = [op |-> "none", size |-> 0, k |-> 0, keys |-> <<>>]
    /\ ls = <<>>
    /\ pipe = NoPipe
    /\ ret = "nil"
    /\ layer = NewMockStorage
    /\ store = NewStore
    /\ packer = NoPacker
    /\ pc = "idle"
    /\ tree = EmptyTree
    /\ dest = EmptyTree
    /\ clock = 0
    /\ m = EmptyManifest
    /\ changed = <<>>
    /\ latest = EmptyMap
    /\ gs = EmptyMap
    /\ sem = 0

KeysFrame ==
    UNCHANGED <<tree, dest, layer, clock, m, ls, changed, latest, gs, sem, pc, ret, store,
                packer, pipe>>

\* keyFactory(size)
CallKeyFactory ==
    /\ hist.op = "none"
    /\ \E size \in KeySizes :
          hist' = [op |-> "keyFactory", size |-> size, k |-> 0, keys |-> <<>>]
    /\ KeysFrame

\* One call of the closure, of the size calls that backupLatest makes.
CallNextKey ==
    /\ hist.op # "none"
    /\ hist.k < hist.size
    /\ hist' = [hist EXCEPT !.op = "key", !.keys = Append(@, keyFactory(hist.size, hist.k)),
                            !.k = @ + 1]
    /\ KeysFrame

NextKeys ==
    \/ CallKeyFactory
    \/ CallNextKey

SpecKeys == InitKeys /\ [][NextKeys]_vars

\* The number a sequence of hexadecimal digits writes.
RECURSIVE HexValue(_)
HexValue(ds) ==
    IF ds = <<>> THEN 0 ELSE 16 * HexValue(SubSeq(ds, 1, Len(ds) - 1)) + ds[Len(ds)]

\* The number of hexadecimal digits of n, by the powers of 16.
Places(n) == CHOOSE w \in 1..16 : n < 16 ^ w /\ (w > 1 => n >= 16 ^ (w - 1))

\* The byte order of two strings of digits.
RECURSIVE LexBefore(_, _)
LexBefore(a, b) ==
    IF a = <<>> THEN b # <<>>
    ELSE IF b = <<>> THEN FALSE
    ELSE IF Head(a) # Head(b) THEN Head(a) < Head(b)
    ELSE LexBefore(Tail(a), Tail(b))

-----------------------------------------------------------------------------
(* C28: the keys a factory of size N has returned so far are the           *)
(* hexadecimal forms of 0, 1, 2, ... in this order, each padded with       *)
(* zeros to the number of hexadecimal digits of N, pairwise distinct, and  *)
(* in byte order as in numeric order.                                      *)
C28_KeyFactory ==
    hist.op \in {"keyFactory", "key"} =>
        /\ Len(hist.keys) = hist.k
        /\ \A i \in 1..Len(hist.keys) :
              /\ \A j \in 1..Len(hist.keys[i]) : hist.keys[i][j] \in 0..15
              /\ HexValue(hist.keys[i]) = i - 1
              /\ Len(hist.keys[i]) = Places(hist.size)
        /\ \A i \in 1..Len(hist.keys) : \A j \in 1..Len(hist.keys) :
              /\ i # j => hist.keys[i] # hist.keys[j]
              /\ i < j <=> LexBefore(hist.keys[i], hist.keys[j])

C28_Witness ==
    /\ hist.op = "key"
    /\ hist.size = 256
    /\ hist.k = 256
    /\ hist.keys[1] = <<0, 0, 0>>
    /\ hist.keys[256] = <<0, 15, 15>>

-----------------------------------------------------------------------------
(* The manifest codec on its own, as TestManifestMarshalling uses it: a    *)
(* manifest made by NewManifest, or by NewManifest and an Update, of the   *)
(* scans of trees with a directory, regular files and a symlink; JSON of   *)
(* it; ReadManifestData of the text.                                       *)

LinkMode == 134218239     \* os.ModeSymlink | 0777

LinkNode == [kind |-> "lnk", content |-> 1, size |-> SizeOf(1), mode |-> LinkMode, mtime |-> 1]

CodecTrees == {[p \in Paths |->
                  CASE p = "/r" -> DirNode(1)
                    [] p = "/r/a" -> a
                    [] p = "/r/b" -> b
                    [] OTHER -> NoNode] :
                  a \in {NoNode, Reg(1, 1), LinkNode},
                  b \in {NoNode, Reg(1, 1), Reg(2, 2)}}

CodecScans == {[files |-> Scan(fs, incl, {}), fs |-> fs] : fs \in CodecTrees, incl \in ManifestIncludes}

CodecManifests ==
    LET new == {NewManifest(c.files, c.fs, 1) : c \in CodecScans}
    IN  new \cup {Update(mm, c.files, c.fs, 2) : mm \in new, c \in CodecScans}

InitCodec ==
    /\ m \in CodecManifests
    /\ hist = [op |-> "none", before |-> m, data |-> <<>>]
    /\ pc = "ready"
    /\ ls = <<>>
    /\ pipe = NoPipe
    /\ ret = "nil"
    /\ layer = NewMockStorage
    /\ store = NewStore
    /\ packer = NoPacker
    /\ tree = EmptyTree
    /\ dest = EmptyTree
    /\ clock = 0
    /\ changed = <<>>
    /\ latest = EmptyMap
    /\ gs = EmptyMap
    /\ sem = 0

CodecFrame ==
    UNCHANGED <<tree, dest, layer, clock, ls, changed, latest, gs, sem, ret, store, packer, pipe>>

\* data, err := before.JSON()
CallJSON ==
    /\ pc = "ready"
    /\ hist' = [op |-> "JSON", before |-> m, data |-> <<JSON(m)>>]
    /\ pc' = "written"
    /\ UNCHANGED m
    /\ CodecFrame

\* after, err := ReadManifestData(data)
CallReadManifestData ==
    /\ pc = "written"
    /\ m' = ReadManifestData(hist.data[1])
    /\ hist' = [hist EXCEPT !.op = "ReadManifestData"]
    /\ pc' = "read"
    /\ CodecFrame

NextCodec ==
    \/ CallJSON
    \/ CallReadManifestData

SpecCodec == InitCodec /\ [][NextCodec]_vars

EntryOf(mm, i) == mm.heap[mm.Entries[i]]

\* The path index of a manifest holds the paths of its entries, each with the
\* pointer of its entry.
IndexRebuilt(mm) ==
    /\ DOMAIN mm.pathMap = {EntryPath(mm, i) : i \in 1..Len(mm.Entries)}
    /\ \A i \in 1..Len(mm.Entries) : mm.pathMap[EntryPath(mm, i)] = mm.Entries[i]

-----------------------------------------------------------------------------
(* C29, as stated: ReadManifestData of the JSON of a manifest is of        *)
(* version 3, has the entries of the manifest in their order, each equal   *)
(* in every field, and a path index of all of them.                        *)
C29_Original ==
    hist.op = "ReadManifestData" =>
        /\ hist.data[1].version = 3
        /\ Len(m.Entries) = Len(hist.before.Entries)
        /\ \A i \in 1..Len(m.Entries) : EntryOf(m, i) = EntryOf(hist.before, i)
        /\ IndexRebuilt(m)

(* C29, amended: the same, but a directory, whose size MarshalJSON leaves  *)
(* out, is read back with the size 0.                                      *)
C29_CodecRoundTrip ==
    hist.op = "ReadManifestData" =>
        /\ hist.data[1].version = 3
        /\ Len(m.Entries) = Len(hist.before.Entries)
        /\ \A i \in 1..Len(m.Entries) :
              EntryOf(m, i) = [EntryOf(hist.before, i) EXCEPT
                                  !.file.size = IF IsDir(EntryOf(hist.before, i).file) THEN 0 ELSE @]
        /\ IndexRebuilt(m)

C29_Witness ==
    /\ hist.op = "ReadManifestData"
    /\ Len(m.Entries) = 3
    /\ \E i \in 1..3 : IsDir(EntryOf(m, i).file) /\ EntryOf(hist.before, i).file.size = DirSize
    /\ \E i \in 1..3 : IsSymlink(EntryOf(m, i).file) /\ HasChecksum(EntryOf(m, i).file)
    /\ \E i \in 1..3 : IsRegular(EntryOf(m, i).file) /\ EntryOf(m, i).set = 2

-----------------------------------------------------------------------------
(* C30: while backupLatest runs, the upload goroutines that have been      *)
(* started and have not yet put their token back are at most               *)
(* c_CONCURRENT_UPLOADS, however many bundles there are; with the tokens   *)
(* in uploadSem and those the final loop has taken they are as many as    *)
(* the channel's capacity.                                                 *)
ActiveUploads == {k \in DOMAIN gs : gs[k].pc \notin {"idle", "done"}}

C30_BoundedUploads ==
    GoroutinesRun =>
        /\ Cardinality(ActiveUploads) <= c_CONCURRENT_UPLOADS
        /\ pc \in {"loop", "drain"} =>
              Cardinality(ActiveUploads) + sem + hist.drained = c_CONCURRENT_UPLOADS

C30_Witness ==
    /\ pc = "loop"
    /\ sem = 0
    /\ Cardinality(ActiveUploads) = c_CONCURRENT_UPLOADS
    /\ Cardinality(DOMAIN gs) > c_CONCURRENT_UPLOADS
    /\ \E k \in DOMAIN gs : gs[k].pc = "idle"
    /\ \E k \in DOMAIN gs : gs[k].pc = "close"

-----------------------------------------------------------------------------
(* C31, as stated: the rollbacks of failed bundles are serialized.  A      *)
(* goroutine is in its rollback from the first statement of                *)
(* dropFromManifest (totalPuts -= 1) until its last m.Remove has returned; *)
(* at most one goroutine is in its rollback at a time, and none while the  *)
(* manifest is encoded and written.                                        *)
InRollback == {k \in DOMAIN gs : gs[k].pc \in {"remove", "removeEntry", "removeEntryWrite"}}

C31_Original ==
    GoroutinesRun =>
        /\ Cardinality(InRollback) <= 1
        /\ pc \in {"save", "putManifest", "putPointer"} => InRollback = {}

-----------------------------------------------------------------------------
(* C32, as stated: the manifest text that a run writes over a prior        *)
(* manifest has an entry for every path of the prior manifest, and the     *)
(* entry of a path that is not among the changed files of the run is the   *)
(* prior entry, with its set and its parts.                                *)
PriorManifest == layer.manifests[hist.ptr0]

ChangedPaths == {changed[i].path : i \in 1..Len(changed)}

C32_Original ==
    pc = "putManifest" /\ hist.ptr0 # Nil =>
        \A i \in 1..Len(PriorManifest.entries) :
            LET e == PriorManifest.entries[i]
            IN  /\ DataEntries(hist.data, e.path) # {}
                /\ e.path \notin ChangedPaths =>
                      \A j \in DataEntries(hist.data, e.path) :
                          /\ hist.data.entries[j].set = e.set
                          /\ hist.data.entries[j].parts = e.parts

-----------------------------------------------------------------------------
(* C33: Remove(f) of a path without an entry returns false and leaves      *)
(* Entries, the path map and the entries as they were.  Otherwise it       *)
(* returns true, the path is gone from the path map and from Entries,      *)
(* Entries is shorter by one, and every other path still has its entry in  *)
(* Entries, with the file, set and parts it had.                           *)
EntryAt(mm, p) == mm.heap[mm.pathMap[p]]

C33_RemoveEffect ==
    hist.op = "Remove" =>
        IF hist.removed \notin DOMAIN hist.before.pathMap
        THEN /\ ret = "false"
             /\ m = hist.before
        ELSE /\ ret = "true"
             /\ DOMAIN m.pathMap = DOMAIN hist.before.pathMap \ {hist.removed}
             /\ Len(m.Entries) = Len(hist.before.Entries) - 1
             /\ \A i \in 1..Len(m.Entries) : EntryPath(m, i) # hist.removed
             /\ \A p \in DOMAIN m.pathMap :
                   /\ EntryAt(m, p) = EntryAt(hist.before, p)
                   /\ \E i \in 1..Len(m.Entries) : m.Entries[i] = m.pathMap[p]

\* A Remove of the first of three entries, of which one is of an earlier set.
C33_Witness ==
    /\ hist.op = "Remove" /\ ret = "true"
    /\ Len(hist.before.Entries) = 3
    /\ hist.before.pathMap[hist.removed] = hist.before.Entries[1]
    /\ \E p \in DOMAIN m.pathMap : EntryAt(m, p).set # m.LastSet
    /\ Len(m.Entries) = 2

\* A Remove of the last entry, of the only entry, and of a path without an entry.
C33_WitnessLast ==
    /\ hist.op = "Remove" /\ ret = "true"
    /\ Len(hist.before.Entries) > 1
    /\ hist.before.pathMap[hist.removed] = hist.before.Entries[Len(hist.before.Entries)]

C33_WitnessOnly == hist.op = "Remove" /\ ret = "true" /\ Len(hist.before.Entries) = 1 /\ Len(m.Entries) = 0

C33_WitnessAbsent == hist.op = "Remove" /\ ret = "false" /\ Len(m.Entries) > 0

-----------------------------------------------------------------------------
(* The scanner with its goroutines (PathScanner.Scan, scanRecursive,       *)
(* walkDir, tagFile).  One goroutine per include path, one per directory   *)
(* received from chDir, the goroutine that receives from chDir, the one    *)
(* that waits and closes the channels, and Scan itself, which ranges over  *)
(* chAll.  chDir and chAll are unbuffered: a send and its receive are one  *)
(* step.  A goroutine is named by the include path it started from and the *)
(* directories walked into from there.                                     *)
(*   gs    the include goroutines and the walkers                          *)
(*   sem   the tokens in sem                                               *)
(*   ls    entries, as Scan has appended them                              *)
(*   hist  incl, excl; the counter of s.wait; the two other goroutines;    *)
(*         whether chDir and chAll are closed; and, for the claims, the    *)
(*         directories opened and the goroutine each entry came from       *)
(*   pc    Scan: "idle", "range", "returned"; "fatal" after log.Fatal,     *)
(*         "panic" after a run-time panic                                  *)

c_CONCURRENT_FILES == 2     \* the capacity of sem

\* A directory that cannot be opened for reading.
LockedDirNode == [kind |-> "dir", content |-> 0, size |-> DirSize, mode |-> 0, mtime |-> 1]

\* The file trees scanned: nothing at all; /r with or without the files /r/a and
\* /r/b, and with /r/d absent, empty, holding /r/d/c, or locked.
ScanTrees ==
    {EmptyTree} \cup
    {[p \in Paths |->
        CASE p = "/r" -> DirNode(1)
          [] p = "/r/a" -> IF ab THEN Reg(1, 1) ELSE NoNode
          [] p = "/r/b" -> IF ab THEN Reg(2, 1) ELSE NoNode
          [] p = "/r/d" -> CASE d = "none" -> NoNode
                             [] d = "locked" -> LockedDirNode
                             [] OTHER -> DirNode(1)
          [] p = "/r/d/c" -> IF d = "full" THEN Reg(1, 1) ELSE NoNode] :
        ab \in BOOLEAN, d \in {"none", "empty", "full", "locked"}}

ScanIncludes == {{}, {"/r"}, {"/r/d"}, {"/r/a"}, {"/r", "/r/d"}}

ScanExcludes == {{}, {"/r"}, {"/r/d"}, {"/r/b"}, {"/r/d", "/r/d/c"}}

\* fd.Readdir, entry by entry: the entries of a directory in directory order.
Children(fs, pwd) ==
    SelectSeq(<<"/r", "/r/d", "/r/b", "/r/a", "/r/d/c">>, LAMBDA p : fs[p] # NoNode /\ Dir(p) = pwd)

NoScan ==
    [incl |-> {}, excl |-> {}, wait |-> 0, disp |-> "none", closer |-> "none",
     dirClosed |-> FALSE, allClosed |-> FALSE, opened |-> {}, via |-> <<>>]

InitScan ==
    /\ tree \in ScanTrees
    /\ \E incl \in ScanIncludes, excl \in ScanExcludes :
          hist = [NoScan EXCEPT !.incl = incl, !.excl = excl]
    /\ pc = "idle"
    /\ gs = EmptyMap
    /\ sem = 0
    /\ ls = <<>>
    /\ ret = "nil"
    /\ pipe = NoPipe
    /\ layer = NewMockStorage
    /\ store = NewStore
    /\ packer = NoPacker
    /\ dest = EmptyTree
    /\ clock = 0
    /\ m = EmptyManifest
    /\ changed = <<>>
    /\ latest = EmptyMap

ScanFrame == UNCHANGED <<tree, dest, layer, clock, m, changed, latest, ret, store, packer, pipe>>

\* A goroutine: what it is, the path it was started with, where it is, the
\* entries its directory still has to deliver, and the entry it is tagging.
Walker(kind, path) == [kind |-> kind, path |-> path, pc |-> "sem", todo |-> <<>>, cur |-> ""]

\* The goroutines run until the process ends.
ScanRuns == pc \in {"range", "returned"}

\* Scan calls scanRecursive: sem is filled, s.wait.Add(len(s.incl)), and the
\* goroutines are started.
CallScan ==
    /\ pc = "idle"
    /\ pc' = "range"
    /\ sem' = c_CONCURRENT_FILES
    /\ gs' = [id \in {<<p>> : p \in hist.incl} |-> Walker("incl", id[1])]
    /\ hist' = [hist EXCEPT !.wait = Cardinality(hist.incl), !.disp = "recv", !.closer = "wait"]
    /\ UNCHANGED ls
    /\ ScanFrame

\* <-sem
TakeSem ==
    /\ ScanRuns
    /\ sem > 0
    /\ \E id \in DOMAIN gs :
          /\ gs[id].pc = "sem"
          /\ gs' = [gs EXCEPT ![id].pc = IF gs[id].kind = "incl" THEN "lstat" ELSE "open"]
    /\ sem' = sem - 1
    /\ UNCHANGED <<ls, hist, pc>>
    /\ ScanFrame

\* s.fs.Lstat(path) of an include path: log.Fatal when it fails.
Lstat ==
    /\ ScanRuns
    /\ \E id \in DOMAIN gs :
          /\ gs[id].pc = "lstat"
          /\ IF tree[gs[id].path] = NoNode
             THEN pc' = "fatal" /\ UNCHANGED gs
             ELSE gs' = [gs EXCEPT ![id].pc = "tag", ![id].cur = gs[id].path] /\ UNCHANGED pc
    /\ UNCHANGED <<ls, hist, sem>>
    /\ ScanFrame

\* walkDir: s.fs.OpenRead(pwd), log.Fatal when it fails.
OpenRead ==
    /\ ScanRuns
    /\ \E id \in DOMAIN gs :
          /\ gs[id].pc = "open"
          /\ IF tree[gs[id].path].mode = 0
             THEN pc' = "fatal" /\ UNCHANGED <<gs, hist>>
             ELSE /\ gs' = [gs EXCEPT ![id].pc = "readdir",
                                      ![id].todo = Children(tree, gs[id].path)]
                  /\ hist' = [hist EXCEPT !.opened = @ \cup {gs[id].path}]
                  /\ UNCHANGED pc
    /\ UNCHANGED <<ls, sem>>
    /\ ScanFrame

\* walkDir: fd.Readdir(1), its entry or io.EOF.
Readdir ==
    /\ ScanRuns
    /\ \E id \in DOMAIN gs :
          /\ gs[id].pc = "readdir"
          /\ gs' = IF gs[id].todo = <<>>
                   THEN [gs EXCEPT ![id].pc = "release"]
                   ELSE [gs EXCEPT ![id].pc = "tag", ![id].cur = Head(gs[id].todo),
                                   ![id].todo = Tail(gs[id].todo)]
    /\ UNCHANGED <<ls, hist, sem, pc>>
    /\ ScanFrame

\* Where a goroutine goes on after tagFile has returned.
AfterTag(g) == IF g.kind = "incl" THEN "release" ELSE "readdir"

\* An exclude set that holds no path.
exclNothing(set, p) == FALSE

\* s.excl[f.Path()]
excl(set, p) == p \in set

\* A tagFile that does not count the directory it queues.
tagFileNoAdd ==
    /\ ScanRuns
    /\ \E id \in DOMAIN gs :
          /\ gs[id].pc = "tag"
          /\ IF excl(hist.excl, gs[id].cur)
             THEN gs' = [gs EXCEPT ![id].pc = AfterTag(gs[id])]
             ELSE IF IsDir(tree[gs[id].cur])
             THEN gs' = [gs EXCEPT ![id].pc = "sendDir"]
             ELSE gs' = [gs EXCEPT ![id].pc = "sendAll"]
          /\ UNCHANGED hist
    /\ UNCHANGED <<ls, sem, pc>>
    /\ ScanFrame

\* tagFile: the test of s.excl, and s.wait.Add(1) for a directory.
tagFile ==
    /\ ScanRuns
    /\ \E id \in DOMAIN gs :
          /\ gs[id].pc = "tag"
          /\ IF excl(hist.excl, gs[id].cur)
             THEN gs' = [gs EXCEPT ![id].pc = AfterTag(gs[id])] /\ UNCHANGED hist
             ELSE IF IsDir(tree[gs[id].cur])
             THEN /\ gs' = [gs EXCEPT ![id].pc = "sendDir"]
                  /\ hist' = [hist EXCEPT !.wait = @ + 1]
             ELSE gs' = [gs EXCEPT ![id].pc = "sendAll"] /\ UNCHANGED hist
    /\ UNCHANGED <<ls, sem, pc>>
    /\ ScanFrame

\* tagFile: chDir <- f, received by the goroutine that starts doWalkDir(d.Path()).
\* A send on a closed channel panics.
SendDir ==
    /\ ScanRuns
    /\ \E id \in DOMAIN gs :
          /\ gs[id].pc = "sendDir"
          /\ IF hist.dirClosed
             THEN pc' = "panic" /\ UNCHANGED gs
             ELSE /\ hist.disp = "recv"
                  /\ gs' = [x \in DOMAIN gs \cup {Append(id, gs[id].cur)} |->
                               IF x = id THEN [gs[id] EXCEPT !.pc = "sendAll"]
                               ELSE IF x \in DOMAIN gs THEN gs[x]
                               ELSE Walker("walk", gs[id].cur)]
                  /\ UNCHANGED pc
    /\ UNCHANGED <<ls, hist, sem>>
    /\ ScanFrame

\* tagFile: chAll <- f, received by the loop of Scan, which appends the entry.
SendAll ==
    /\ ScanRuns
    /\ \E id \in DOMAIN gs :
          /\ gs[id].pc = "sendAll"
          /\ IF hist.allClosed
             THEN pc' = "panic" /\ UNCHANGED <<gs, ls, hist>>
             ELSE /\ pc = "range"
                  /\ ls' = Append(ls, foundFile(gs[id].cur, tree[gs[id].cur]))
                  /\ hist' = [hist EXCEPT !.via = Append(@, id)]
                  /\ gs' = [gs EXCEPT ![id].pc = AfterTag(gs[id])]
                  /\ UNCHANGED pc
    /\ UNCHANGED sem
    /\ ScanFrame

\* sem <- true, after walkDir has returned and closed the directory.
PutSem ==
    /\ ScanRuns
    /\ \E id \in DOMAIN gs :
          /\ gs[id].pc = "release"
          /\ gs' = [gs EXCEPT ![id].pc = "waitDone"]
    /\ sem' = sem + 1
    /\ UNCHANGED <<ls, hist, pc>>
    /\ ScanFrame

\* s.wait.Done(): a negative counter panics.
WaitDone ==
    /\ ScanRuns
    /\ \E id \in DOMAIN gs :
          /\ gs[id].pc = "waitDone"
          /\ IF hist.wait = 0
             THEN pc' = "panic" /\ UNCHANGED <<gs, hist>>
             ELSE /\ gs' = [gs EXCEPT ![id].pc = "done"]
                  /\ hist' = [hist EXCEPT !.wait = @ - 1]
                  /\ UNCHANGED pc
    /\ UNCHANGED <<ls, sem>>
    /\ ScanFrame

\* s.wait.Wait() returns.
WaitReturns ==
    /\ ScanRuns
    /\ hist.closer = "wait"
    /\ hist.wait = 0
    /\ hist' = [hist EXCEPT !.closer = "closeDir"]
    /\ UNCHANGED <<gs, ls, sem, pc>>
    /\ ScanFrame

\* close(chDir)
CloseDir ==
    /\ ScanRuns
    /\ hist.closer = "closeDir"
    /\ hist' = [hist EXCEPT !.closer = "closeAll", !.dirClosed = TRUE]
    /\ UNCHANGED <<gs, ls, sem, pc>>
    /\ ScanFrame

\* close(chAll)
CloseAll ==
    /\ ScanRuns
    /\ hist.closer = "closeAll"
    /\ hist' = [hist EXCEPT !.closer = "done", !.allClosed = TRUE]
    /\ UNCHANGED <<gs, ls, sem, pc>>
    /\ ScanFrame

\* The receive from the closed chDir: break loop.
DirLoopEnds ==
    /\ ScanRuns
    /\ hist.disp = "recv"
    /\ hist.dirClosed
    /\ hist' = [hist EXCEPT !.disp = "done"]
    /\ UNCHANGED <<gs, ls, sem, pc>>
    /\ ScanFrame

\* The range over the closed chAll ends: Scan returns entries.
ScanReturns ==
    /\ pc = "range"
    /\ hist.allClosed
    /\ pc' = "returned"
    /\ UNCHANGED <<gs, ls, sem, hist>>
    /\ ScanFrame

NextScan ==
    \/ CallScan
    \/ TakeSem
    \/ Lstat
    \/ OpenRead
    \/ Readdir
    \/ tagFile
    \/ SendDir
    \/ SendAll
    \/ PutSem
    \/ WaitDone
    \/ WaitReturns
    \/ CloseDir
    \/ CloseAll
    \/ DirLoopEnds
    \/ ScanReturns

SpecScan == InitScan /\ [][NextScan]_vars

\* The scheduler runs a goroutine that can take a step.
SpecScanFair == SpecScan /\ WF_vars(NextScan)

-----------------------------------------------------------------------------
(* C34: at every moment of a scan, no entry that Scan has received has a   *)
(* path of the exclude set, no excluded directory has been opened, and     *)
(* every entry is an include path itself or was read from a directory that *)
(* was opened, which is then not an excluded one; an excluded include path *)
(* starts no walk.                                                         *)
C34_Exclusion ==
    /\ \A i \in 1..Len(ls) :
          /\ ls[i].path \notin hist.excl
          /\ \/ hist.via[i] = <<ls[i].path>> /\ ls[i].path \in hist.incl
             \/ /\ Dir(ls[i].path) \in hist.opened \ hist.excl
                /\ gs[hist.via[i]].kind = "walk"
                /\ gs[hist.via[i]].path = Dir(ls[i].path)
    /\ hist.opened \cap hist.excl = {}
    /\ \A id \in DOMAIN gs :
          gs[id].kind = "walk" => gs[id].path \notin hist.excl /\ IsDir(tree[gs[id].path])

\* A scan has returned that included /r and /r/d and excluded /r/d: /r/d/c exists
\* and is not among the entries, and /r/a and /r/b are.
C34_Witness ==
    /\ pc = "returned"
    /\ hist.incl = {"/r", "/r/d"}
    /\ hist.excl = {"/r/d"}
    /\ tree["/r/d/c"] # NoNode
    /\ {ls[i].path : i \in 1..Len(ls)} = {"/r", "/r/a", "/r/b"}

\* A scan has returned the entries beneath an excluded directory that were
\* reached from an include path of their own.
C34_WitnessBeneath ==
    /\ pc = "returned"
    /\ hist.excl = {"/r"}
    /\ {ls[i].path : i \in 1..Len(ls)} = {"/r/d", "/r/d/c"}

-----------------------------------------------------------------------------
(* C38, as stated: in every interleaving Scan returns, with every          *)
(* goroutine it started at its end, and no goroutine panics on a closed    *)
(* channel or on the counter of s.wait.                                    *)
ScanOver ==
    /\ pc = "returned"
    /\ \A id \in DOMAIN gs : gs[id].pc = "done"
    /\ hist.disp = "done"
    /\ hist.closer = "done"

C38_Original == [](pc # "panic") /\ <>ScanOver

(* C38: no goroutine sends on a closed channel or takes the counter of     *)
(* s.wait below zero; the process ends through log.Fatal only when an      *)
(* include path does not exist or a directory cannot be opened; and in     *)
(* every interleaving the scan comes to its end: Scan has returned and     *)
(* every goroutine has finished, none left waiting for sem or in a send,   *)
(* or the process has ended through log.Fatal.                             *)
CannotScan ==
    \/ \E p \in hist.incl : tree[p] = NoNode
    \/ \E p \in Paths : tree[p] = LockedDirNode

C38_ScanTerminates ==
    /\ [](pc # "panic")
    /\ [](pc = "fatal" => CannotScan)
    /\ [](pc = "returned" => \A id \in DOMAIN gs : gs[id].pc = "done")
    /\ <>(ScanOver \/ pc = "fatal")

\* Two include paths, one beneath the other: five goroutines have run and /r/d/c
\* was found twice.
C38_Witness ==
    /\ ScanOver
    /\ hist.incl = {"/r", "/r/d"}
    /\ Cardinality(DOMAIN gs) = 5
    /\ Len(ls) = 7

\* A goroutine waits for a token while others hold them all.
C38_WitnessSem == ScanRuns /\ sem = 0 /\ \E id \in DOMAIN gs : gs[id].pc = "sem"

-----------------------------------------------------------------------------
(* The checksum pass on its own: file.ChecksumFiles(touched, changed) as   *)
(* Compare calls it, on two lists of scanned files of which some already   *)
(* carry a checksum, that of the present content of the file or that of an *)
(* earlier content.                                                        *)
(*   tree         the file system                                          *)
(*   ls, changed  the two groups of the call                               *)
(*   hist         the groups before the call                               *)

KnownSums == {0, SHA1(1), SHA1(2)}

WithSums(files, sums) ==
    [i \in 1..Len(files) |->
        IF IsDir(files[i]) THEN files[i] ELSE [files[i] EXCEPT !.sha1 = sums[files[i].path]]]

InitChecksum ==
    /\ tree \in CodecTrees
    /\ \E sums \in [{"/r/a", "/r/b"} -> KnownSums] :
          LET files == WithSums(Scan(tree, {"/r"}, {}), sums)
          IN  \E k \in 0..Len(files) :
                  /\ ls = SubSeq(files, 1, k)
                  /\ changed = SubSeq(files, k + 1, Len(files))
    /\ hist = [op |-> "none", before |-> <<>>]
    /\ pc = "call"
    /\ ret = "nil"
    /\ pipe = NoPipe
    /\ layer = NewMockStorage
    /\ store = NewStore
    /\ packer = NoPacker
    /\ dest = EmptyTree
    /\ clock = 0
    /\ m = EmptyManifest
    /\ latest = EmptyMap
    /\ gs = EmptyMap
    /\ sem = 0

CallChecksumFilesFS ==
    /\ pc = "call"
    /\ LET out == ChecksumFilesFS(tree, <<ls, changed>>)
       IN  /\ ls' = out[1]
           /\ changed' = out[2]
    /\ hist' = [op |-> "ChecksumFiles", before |-> <<ls, changed>>]
    /\ pc' = "done"
    /\ UNCHANGED <<tree, dest, layer, clock, m, latest, gs, sem, ret, store, packer, pipe>>

NextChecksum == CallChecksumFilesFS

SpecChecksum == InitChecksum /\ [][NextChecksum]_vars

-----------------------------------------------------------------------------
(* C35, as stated: after ChecksumFiles every regular file and symlink that *)
(* had no checksum has the SHA-1 of its content, and every other entry of  *)
(* the call is as it was: the SHA1 of an entry that had one is the same,   *)
(* directories are the same in every field.                                *)
C35_Original ==
    hist.op = "ChecksumFiles" =>
        \A g \in 1..2 :
            LET after == <<ls, changed>>[g]
                before == hist.before[g]
            IN  /\ Len(after) = Len(before)
                /\ \A j \in 1..Len(before) :
                      after[j] = IF NeedsChecksum(before[j])
                                 THEN [before[j] EXCEPT !.sha1 = DiskSHA1(tree, before[j])]
                                 ELSE before[j]

-----------------------------------------------------------------------------
(* C36, as stated: when RestoreToPath has returned success, every entry of *)
(* the manifest that is not a directory and matches an include prefix is   *)
(* in the destination with the size and the content that were backed up,   *)
(* whatever was at its path before the restore.                            *)
C36_Original == hist.op = "restore" /\ ret = "nil" => AllIncludedRestored

-----------------------------------------------------------------------------
(* C37, as stated: when ScanAndBackup has returned success in a run that   *)
(* found changed files (all the scanned files, in a run without a prior    *)
(* manifest), the manifest of the run's set is completely written and the  *)
(* pointer names it.                                                       *)
C37_Original ==
    pc = "done" /\ ret = "nil" /\ Len(changed) > 0 =>
        /\ hist.mput = "ok"
        /\ hist.pput = "ok"
        /\ ManifestComplete(m.LastSet)
        /\ layer.latestPtr = m.LastSet

-----------------------------------------------------------------------------
(* The Packer, goroutine by goroutine (SpecPacker).  The producer is the    *)
(* goroutine that calls PutReader and Close on the Packer that Pack         *)
(* returned; the uploader is the goroutine that Pack started.  The state:   *)
(*   packer   closed, closeErr; werr and rerr, the errors the write end and *)
(*            the read end of the pipe were closed with ("none": open);     *)
(*            buf, a Write that waits for its reader; todo and srcErr, the  *)
(*            chunks io.Copy has yet to write and the error its source ends *)
(*            with                                                          *)
(*   gs       the uploader: its position and the error of the put           *)
(*   pc       the producer's position                                       *)
(*   hist     n calls made; call and err, the call the producer is in and   *)
(*            the error it returns; recv, the receives from p.err           *)

MaxPackerCalls == 3
MaxChunks == 2

PipeEOF == "EOF"

PipeDone(pk) == pk.werr # "none" \/ pk.rerr # "none"

InitPacker ==
    /\ packer = [closed |-> FALSE, closeErr |-> "nil", werr |-> "none", rerr |-> "none",
                 buf |-> FALSE, todo |-> 0, srcErr |-> "nil"]
    /\ gs = [u \in {"uploader"} |-> [pc |-> "reading", err |-> "nil"]]
    /\ pc = "idle"
    /\ ret = "nil"
    /\ hist = [n |-> 0, call |-> "none", err |-> "nil", recv |-> 0]
    /\ tree = EmptyTree
    /\ dest = EmptyTree
    /\ layer = EmptyLayer
    /\ clock = 0
    /\ m = EmptyManifest
    /\ ls = <<>>
    /\ changed = <<>>
    /\ latest = EmptyMap
    /\ sem = 0
    /\ store = NewStore
    /\ pipe = NoPipe

PackerFrame == UNCHANGED <<tree, dest, layer, clock, m, ls, changed, latest, sem, store, pipe>>

\* What the call the producer is in returns: PutReader its err, Close p.closeErr.
PackerReturn(pk) == IF hist.call = "Close" THEN pk.closeErr ELSE hist.err

\* PutReader up to io.Copy: CompressReader and EncryptReader, either of which
\* may fail.
PutReaderBegins ==
    /\ pc = "idle"
    /\ hist.n < MaxPackerCalls
    /\ \E fail \in {"nil", "zip", "encrypt"}, chunks \in 0..MaxChunks, srcErr \in {"nil", "timeout"} :
          /\ pc' = IF fail = "nil" THEN "copy" ELSE "closeWriter"
          /\ packer' = [packer EXCEPT !.todo = chunks, !.srcErr = srcErr]
          /\ hist' = [hist EXCEPT !.n = @ + 1, !.call = "PutReader", !.err = fail]
    /\ UNCHANGED <<gs, ret>>
    /\ PackerFrame

\* io.Copy(p.w, ciphertext): the next read of the source, and the Write of what
\* was read.  A Write on a pipe with an end closed returns at once.
CopyStep ==
    /\ pc = "copy"
    /\ IF packer.todo = 0
       THEN IF packer.srcErr = "nil"
            THEN pc' = "idle" /\ ret' = "nil" /\ UNCHANGED <<packer, hist>>
            ELSE /\ pc' = "closeWriter"
                 /\ hist' = [hist EXCEPT !.err = packer.srcErr]
                 /\ UNCHANGED <<packer, ret>>
       ELSE IF PipeDone(packer)
            THEN /\ pc' = "closeWriter"
                 /\ hist' = [hist EXCEPT !.err = IF packer.werr = "none" THEN packer.rerr
                                                  ELSE ErrClosedPipe]
                 /\ UNCHANGED <<packer, ret>>
            ELSE /\ pc' = "write"
                 /\ packer' = [packer EXCEPT !.buf = TRUE]
                 /\ UNCHANGED <<hist, ret>>
    /\ UNCHANGED gs
    /\ PackerFrame

\* The uploader's Read takes what the blocked Write offers; the Write returns.
UploaderReads ==
    /\ pc = "write"
    /\ gs["uploader"].pc = "reading"
    /\ packer.buf
    /\ packer.rerr = "none"
    /\ packer' = [packer EXCEPT !.buf = FALSE, !.todo = @ - 1]
    /\ pc' = "copy"
    /\ UNCHANGED <<gs, ret, hist>>
    /\ PackerFrame

\* The blocked Write returns the error the read end was closed with.
WriteAborted ==
    /\ pc = "write"
    /\ packer.rerr # "none"
    /\ packer' = [packer EXCEPT !.buf = FALSE]
    /\ hist' = [hist EXCEPT !.err = packer.rerr]
    /\ pc' = "closeWriter"
    /\ UNCHANGED <<gs, ret>>
    /\ PackerFrame

\* Close()
CloseBegins ==
    /\ pc = "idle"
    /\ hist.n < MaxPackerCalls
    /\ hist' = [hist EXCEPT !.n = @ + 1, !.call = "Close", !.err = "nil"]
    /\ pc' = "closeWriter"
    /\ UNCHANGED <<packer, gs, ret>>
    /\ PackerFrame

\* closeWriter(err) up to the receive: on a Packer not closed it closes the
\* write end with err (nil: io.EOF for the reader); on a closed one it returns.
closeWriterStep ==
    /\ pc = "closeWriter"
    /\ IF ~packer.closed
       THEN /\ packer' = [packer EXCEPT !.closed = TRUE,
                            !.werr = IF hist.err = "nil" THEN PipeEOF ELSE hist.err]
            /\ pc' = "recv"
            /\ UNCHANGED ret
       ELSE /\ pc' = "idle"
            /\ ret' = PackerReturn(packer)
            /\ UNCHANGED packer
    /\ UNCHANGED <<gs, hist>>
    /\ PackerFrame

\* The Read of the uploader returns the error the write end was closed with.
\* At io.EOF the put of the layer completes, and succeeds or fails; another
\* error is what the put returns.
UploaderSeesEnd ==
    /\ gs["uploader"].pc = "reading"
    /\ packer.werr # "none"
    /\ \E ok \in BOOLEAN :
          gs' = [gs EXCEPT !["uploader"] =
                    [pc |-> "closeReader",
                     err |-> IF packer.werr = PipeEOF
                             THEN (IF ok THEN "nil" ELSE "put failed")
                             ELSE packer.werr]]
    /\ UNCHANGED <<packer, pc, ret, hist>>
    /\ PackerFrame

\* The put of the layer returns an error before the end of the pipe.
UploaderPutFails ==
    /\ gs["uploader"].pc = "reading"
    /\ gs' = [gs EXCEPT !["uploader"] = [pc |-> "closeReader", err |-> "put failed"]]
    /\ UNCHANGED <<packer, pc, ret, hist>>
    /\ PackerFrame

\* r.CloseWithError(err)
UploaderClosesReader ==
    /\ gs["uploader"].pc = "closeReader"
    /\ packer' = [packer EXCEPT !.rerr = IF gs["uploader"].err = "nil" THEN ErrClosedPipe
                                         ELSE gs["uploader"].err]
    /\ gs' = [gs EXCEPT !["uploader"].pc = "send"]
    /\ UNCHANGED <<pc, ret, hist>>
    /\ PackerFrame

\* p.err <- err in the uploader and p.closeErr = <-p.err in closeWriter: the
\* channel has no buffer, the two happen together.
UploaderSends ==
    /\ gs["uploader"].pc = "send"
    /\ pc = "recv"
    /\ packer' = [packer EXCEPT !.closeErr = gs["uploader"].err]
    /\ gs' = [gs EXCEPT !["uploader"].pc = "exit"]
    /\ hist' = [hist EXCEPT !.recv = @ + 1]
    /\ pc' = "idle"
    /\ ret' = PackerReturn(packer')
    /\ PackerFrame

NextPacker ==
    \/ PutReaderBegins
    \/ CopyStep
    \/ UploaderReads
    \/ WriteAborted
    \/ CloseBegins
    \/ closeWriterStep
    \/ UploaderSeesEnd
    \/ UploaderPutFails
    \/ UploaderClosesReader
    \/ UploaderSends

SpecPacker == InitPacker /\ [][NextPacker]_vars

\* The scheduler runs a goroutine that can run.
SpecPackerFair == SpecPacker /\ WF_vars(NextPacker)

\* The Packer on its own: every call of the producer returns, the result of the
\* uploader is received once, by the call that closed the Packer.
PackerNeverBlocks ==
    /\ [](hist.recv <= 1)
    /\ [](pc = "idle" /\ packer.closed => hist.recv = 1 /\ gs["uploader"].pc = "exit")
    /\ [](pc # "idle" => <>(pc = "idle"))

\* The goroutines of the run that hold an upload token.
HoldingToken == {k \in DOMAIN gs : gs[k].pc \notin {"idle", "done"}}

\* C39: the Packer never blocks its producer for good, and so every bundle
\* upload goroutine of backupLatest gives its upload token back, once, and the
\* run comes to the write of the manifest: no goroutine of the run dies in a
\* panic, the tokens out are those of the goroutines still at work, and the
\* manifest is saved only after every goroutine has given its token back.
C39_Original ==
    /\ ret # "panic"
    /\ pc \in {"loop", "drain"} =>
          sem + hist.drained + Cardinality(HoldingToken) = c_CONCURRENT_UPLOADS
    /\ pc \in {"save", "putManifest", "putPointer"} =>
          \A k \in DOMAIN gs : gs[k].pc = "done"

-----------------------------------------------------------------------------
(* C40, as stated: when the put of the layer inside PutMetadata(k, v)      *)
(* fails, PutMetadata returns the error, a GetMetadata(k) that follows on  *)
(* the same store returns what it returned before the call, and the        *)
(* metadata the store has cached holds nothing that was not written: the   *)
(* store is as a read of its metadata leaves it, the layer as it was.      *)
PutMetadataFailed == hist.op = "PutMetadata" /\ ret = "put failed"

\* C40: a PutMetadata whose put of the layer failed changes nothing.
C40_Original ==
    PutMetadataFailed =>
       /\ layer = hist.layer
       /\ StoreGetMetadata(store, layer, hist.key).err
             = StoreGetMetadata(hist.store, hist.layer, hist.key).err
       /\ StoreGetMetadata(store, layer, hist.key).data
             = StoreGetMetadata(hist.store, hist.layer, hist.key).data
       /\ store = loadStoreMetadata(hist.store, hist.layer).store

====
